---- MODULE Spec2Model ----
(***************************************************************************)
(* Hypergraphs with ordered ports and input/output boundaries (HypNN):     *)
(* the entity model (add_vertex, add_edge), the composition engine         *)
(* (parallel_comp, sequential_comp) and the layering scheduler             *)
(* (layer_decomp, frobenius_layer_decomp) of src/hypnn/hypergraph.py.      *)
(*                                                                         *)
(* A hypergraph is a record [gid, vertices, edges, inputs, outputs] with   *)
(*   vertices : id -> [vtype, sources, targets, obj]   (sets of edge ids)  *)
(*   edges    : id -> [sources, targets, label, identity, obj] (sequences) *)
(* A Python dict iterates in insertion order; ids are allocated as max+1   *)
(* and nothing is ever removed, so dict order is ascending id order.       *)
(* Python object identity is kept as the tag obj = <<gid, id>>: the graph  *)
(* object a record was created for and its id there; deepcopy gives every  *)
(* copied record a new tag.  Iteration over a Python set of ids is taken   *)
(* in ascending id order.  Every raise ValueError of the source is named   *)
(* by the error kind it stands for.                                        *)
(***************************************************************************)
EXTENDS Integers, Sequences, FiniteSets, TLC

VARIABLES
  A,        \* self: the hypergraph the operations are called on
  B,        \* other: the second operand of a composition
  C,        \* the hypergraph an operation with in_place = False works on and returns
  pc,       \* where the caller is
  err,      \* the error the last call raised, "none" if it returned
  loc,      \* the last operation, its in_place flag and its local variables
  nextGid   \* the next unused graph object tag

vars == <<A, B, C, pc, err, loc, nextGid>>

(* ------------------------------ bounds --------------------------------- *)
\* Graphs built call by call from the empty graph.
MaxBuildVertices == 2
MaxBuildEdges == 2
MaxBuildPorts == 1
MaxBuildBoundary == 1
\* Operand pairs of a composition.
MaxPairVertices == 3
MaxOperandVertices == 2
MaxGluedBoundary == 2
MaxCarriedBoundary == 1
\* the graphs layer_decomp is called on
MaxLayerVertices == 3
MaxLayerEdges == 2
MaxLayerPorts == 2
MaxLayerBoundary == 2
MaxLayerSize == 7
\* frobenius_layer_decomp starts no further pass on a graph with more vertices
MaxFrobVertices == 6

(* ------------------------------ helpers -------------------------------- *)
Range(s) == {s[i] : i \in DOMAIN s}

Max(S, default) == IF S = {} THEN default ELSE CHOOSE x \in S : \A y \in S : y <= x

Min(S) == CHOOSE x \in S : \A y \in S : x <= y

BSeq(S, n) == UNION {[1..k -> S] : k \in 0..n}

\* m[k] = v of a Python dict: the key is added or its value replaced.
Put(m, k, v) == [x \in DOMAIN m \cup {k} |-> IF x = k THEN v ELSE m[x]]

VTypes == {0, 1}

\* Hypergraph.__init__: no vertices, no edges, empty boundaries.
EmptyGraph(gid) ==
  [gid |-> gid, vertices |-> <<>>, edges |-> <<>>, inputs |-> <<>>, outputs |-> <<>>]

\* Vertex(vtype): a vertex record as the caller constructs it.
Vertex(vtype, obj) == [vtype |-> vtype, sources |-> {}, targets |-> {}, obj |-> obj]

\* Hyperedge(sources, targets, label, identity).
Hyperedge(sources, targets, label, identity, obj) ==
  [sources |-> sources, targets |-> targets, label |-> label,
   identity |-> identity, obj |-> obj]

\* max((i for i in d.keys()), default=-1) + 1
NextId(d) == Max(DOMAIN d, -1) + 1

\* deepcopy(vertex) / deepcopy(edge): an equal record that is a new object.
DeepCopyRecord(record, obj) == [record EXCEPT !.obj = obj]

\* A copy of the graph that holds the vertex and edge records of g
\* themselves.
CopyGraphSharingRecords(g, gid) == [g EXCEPT !.gid = gid]

\* deepcopy(self): every vertex and edge record is copied.
DeepCopyGraph(g, gid) ==
  [gid |-> gid,
   vertices |-> [v \in DOMAIN g.vertices |-> DeepCopyRecord(g.vertices[v], <<gid, v>>)],
   edges |-> [e \in DOMAIN g.edges |-> DeepCopyRecord(g.edges[e], <<gid, e>>)],
   inputs |-> g.inputs,
   outputs |-> g.outputs]

(* ---------------------------- entity model ----------------------------- *)
\* An add_vertex that stores the vertex under an id it returned three calls
\* before.
add_vertex_wrapping(g, vertex) ==
  [g |-> [g EXCEPT !.vertices = Put(@, NextId(@) % 3, vertex)],
   id |-> NextId(g.vertices) % 3]

\* add_vertex: the new id, and the graph with the vertex stored under it.
add_vertex(g, vertex) ==
  [g |-> [g EXCEPT !.vertices = @ @@ (NextId(@) :> vertex)],
   id |-> NextId(g.vertices)]

\* A check of the arities alone.
IdentityArityMismatch(g, sources, targets) == Len(sources) # Len(targets)

\* The check shared by create_identity and add_edge: arities differ or some
\* zipped pair of vertices differs in vtype.
IdentityMismatch(g, sources, targets) ==
  \/ Len(sources) # Len(targets)
  \/ \E i \in 1..Len(sources) :
        g.vertices[sources[i]].vtype # g.vertices[targets[i]].vtype

\* An add_edge that registers the edge with its source vertices only.
add_edge_sources_only(g, edge) ==
  IF ~(\A v \in Range(edge.sources) \cup Range(edge.targets) : v \in DOMAIN g.vertices)
  THEN [g |-> g, id |-> -1, err |-> "ReferenceError"]
  ELSE IF edge.identity /\ IdentityMismatch(g, edge.sources, edge.targets)
  THEN [g |-> g, id |-> -1, err |-> "TypeMismatchError"]
  ELSE LET edge_id == NextId(g.edges)
       IN [g |-> [g EXCEPT
                    !.edges = @ @@ (edge_id :> edge),
                    !.vertices = [v \in DOMAIN @ |->
                       [@[v] EXCEPT
                          !.targets = IF v \in Range(edge.sources)
                                      THEN @ \cup {edge_id} ELSE @]]],
           id |-> edge_id, err |-> "none"]

\* An add_edge that stores the edge before it validates it.
add_edge_store_first(g, edge) ==
  LET edge_id == NextId(g.edges)
      stored == [g EXCEPT !.edges = @ @@ (edge_id :> edge)]
  IN IF ~(\A v \in Range(edge.sources) \cup Range(edge.targets) : v \in DOMAIN g.vertices)
     THEN [g |-> stored, id |-> -1, err |-> "ReferenceError"]
     ELSE IF edge.identity /\ IdentityMismatch(g, edge.sources, edge.targets)
     THEN [g |-> stored, id |-> -1, err |-> "TypeMismatchError"]
     ELSE [g |-> [stored EXCEPT
                    !.vertices = [v \in DOMAIN @ |->
                       [@[v] EXCEPT
                          !.targets = IF v \in Range(edge.sources)
                                      THEN @ \cup {edge_id} ELSE @,
                          !.sources = IF v \in Range(edge.targets)
                                      THEN @ \cup {edge_id} ELSE @]]],
           id |-> edge_id, err |-> "none"]

\* add_edge: validation first, then the id, the store and the registration
\* of the edge with its source and target vertices.
add_edge(g, edge) ==
  IF ~(\A v \in Range(edge.sources) \cup Range(edge.targets) : v \in DOMAIN g.vertices)
  THEN [g |-> g, id |-> -1, err |-> "ReferenceError"]
  ELSE IF edge.identity /\ IdentityMismatch(g, edge.sources, edge.targets)
  THEN [g |-> g, id |-> -1, err |-> "TypeMismatchError"]
  ELSE LET edge_id == NextId(g.edges)
       IN [g |-> [g EXCEPT
                    !.edges = @ @@ (edge_id :> edge),
                    !.vertices = [v \in DOMAIN @ |->
                       [@[v] EXCEPT
                          !.targets = IF v \in Range(edge.sources)
                                      THEN @ \cup {edge_id} ELSE @,
                          !.sources = IF v \in Range(edge.targets)
                                      THEN @ \cup {edge_id} ELSE @]]],
           id |-> edge_id, err |-> "none"]

\* BaseHypergraph.create_identity: the identity edge, or the error.
create_identity(g, sources, targets) ==
  IF IdentityMismatch(g, sources, targets)
  THEN [edge |-> Hyperedge(sources, targets, "id", TRUE, <<g.gid, NextId(g.edges)>>),
        err |-> "TypeMismatchError"]
  ELSE [edge |-> Hyperedge(sources, targets, "id", TRUE, <<g.gid, NextId(g.edges)>>),
        err |-> "none"]

(* ------------------------- composition engine -------------------------- *)
\* deepcopy(vertex) with sources and targets cleared.
CopiedVertex(vertex, obj) ==
  [DeepCopyRecord(vertex, obj) EXCEPT !.sources = {}, !.targets = {}]

\* for vertex_id, vertex in other.vertices.items(): copy the vertices in todo
\* into composed and record their new ids in vertex_map.
RECURSIVE CopyVertices(_, _, _, _)
CopyVertices(composed, other, todo, vertex_map) ==
  IF todo = {} THEN [g |-> composed, vertex_map |-> vertex_map]
  ELSE LET vertex_id == Min(todo)
           r == add_vertex(composed,
                           CopiedVertex(other.vertices[vertex_id],
                                        <<composed.gid, NextId(composed.vertices)>>))
       IN CopyVertices(r.g, other, todo \ {vertex_id}, Put(vertex_map, vertex_id, r.id))

\* A copy of the edge that translates the sources only.
CopiedEdgeTargetsKept(edge, vertex_map, obj) ==
  [DeepCopyRecord(edge, obj) EXCEPT
     !.sources = [i \in DOMAIN edge.sources |-> vertex_map[edge.sources[i]]]]

\* deepcopy(edge) with its ports translated by vertex_map.
CopiedEdge(edge, vertex_map, obj) ==
  [DeepCopyRecord(edge, obj) EXCEPT
     !.sources = [i \in DOMAIN edge.sources |-> vertex_map[edge.sources[i]]],
     !.targets = [i \in DOMAIN edge.targets |-> vertex_map[edge.targets[i]]]]

\* for edge in other.edges.values(): composed.add_edge(copied_edge); an error
\* of add_edge ends the loop with the edges added so far in place.
RECURSIVE CopyEdges(_, _, _, _)
CopyEdges(composed, other, todo, vertex_map) ==
  IF todo = {} THEN [g |-> composed, err |-> "none"]
  ELSE LET edge_id == Min(todo)
           r == add_edge(composed,
                         CopiedEdge(other.edges[edge_id], vertex_map,
                                    <<composed.gid, NextId(composed.edges)>>))
       IN IF r.err # "none" THEN [g |-> r.g, err |-> r.err]
          ELSE CopyEdges(r.g, other, todo \ {edge_id}, vertex_map)

\* A composition that always works on self itself.
ComposedShared(self, in_place, gid) == self

\* composed = self if in_place else deepcopy(self)
Composed(self, in_place, gid) == IF in_place THEN self ELSE DeepCopyGraph(self, gid)

\* parallel_comp: [g: the composed graph, err].
parallel_comp(self, other, in_place, gid) ==
  LET composed == Composed(self, in_place, gid)
      cv == CopyVertices(composed, other, DOMAIN other.vertices, <<>>)
      ce == CopyEdges(cv.g, other, DOMAIN other.edges, cv.vertex_map)
  IN IF ce.err # "none" THEN [g |-> ce.g, err |-> ce.err]
     ELSE [g |-> [ce.g EXCEPT
                    !.inputs = @ \o [i \in DOMAIN other.inputs |->
                                       cv.vertex_map[other.inputs[i]]],
                    !.outputs = @ \o [i \in DOMAIN other.outputs |->
                                       cv.vertex_map[other.outputs[i]]]],
           err |-> "none"]

\* for out_vid, in_vid in zip(composed.outputs, other.inputs):
\*     vertex_map[in_vid] = out_vid
RECURSIVE Identify(_, _, _, _)
Identify(vertex_map, outputs, inputs, i) ==
  IF i > Len(outputs) \/ i > Len(inputs) THEN vertex_map
  ELSE Identify(Put(vertex_map, inputs[i], outputs[i]), outputs, inputs, i + 1)

\* The arity check alone.
BoundaryErrorArityOnly(self, other) ==
  IF Len(self.outputs) # Len(other.inputs) THEN "ArityMismatchError" ELSE "none"

\* The two checks sequential_comp makes before it copies anything.
BoundaryError(self, other) ==
  IF Len(self.outputs) # Len(other.inputs) THEN "ArityMismatchError"
  ELSE IF \E i \in 1..Len(self.outputs) :
            self.vertices[self.outputs[i]].vtype # other.vertices[other.inputs[i]].vtype
  THEN "TypeMismatchError"
  ELSE "none"

\* sequential_comp: [g: the composed graph, err].
sequential_comp(self, other, in_place, gid) ==
  IF BoundaryError(self, other) # "none"
  THEN [g |-> self, err |-> BoundaryError(self, other)]
  ELSE
  LET composed == Composed(self, in_place, gid)
      cv == CopyVertices(composed, other,
                         DOMAIN other.vertices \ Range(other.inputs), <<>>)
      vertex_map == Identify(cv.vertex_map, composed.outputs, other.inputs, 1)
      glued == [cv.g EXCEPT !.outputs = [i \in DOMAIN other.outputs |->
                                           vertex_map[other.outputs[i]]]]
  IN CopyEdges(glued, other, DOMAIN other.edges, vertex_map)

(* ------------------------- identity insertion -------------------------- *)
\* [x if x != old else new for x in ids]
Replace(ids, old, new) == [i \in DOMAIN ids |-> IF ids[i] = old THEN new ELSE ids[i]]

\* insert_identity_after: the vertex is split into old -> identity -> new, the
\* targets of old move to new, and new replaces old in outputs.
\* [g, id: the identity edge, err]
insert_identity_after(g, vertex_id) ==
  LET old_vertex == g.vertices[vertex_id]
      r1 == add_vertex(g, DeepCopyRecord(old_vertex, <<g.gid, NextId(g.vertices)>>))
      new_vertex_id == r1.id
      ci == create_identity(r1.g, <<vertex_id>>, <<new_vertex_id>>)
      r2 == add_edge(r1.g, ci.edge)
      identity_id == r2.id
      new_targets == {t \in r2.g.vertices[vertex_id].targets : t # identity_id}
  IN IF ci.err # "none" THEN [g |-> r1.g, id |-> -1, err |-> ci.err]
     ELSE IF r2.err # "none" THEN [g |-> r2.g, id |-> -1, err |-> r2.err]
     ELSE [g |-> [r2.g EXCEPT
                    !.vertices = [v \in DOMAIN @ |->
                       IF v = new_vertex_id
                       THEN [@[v] EXCEPT !.sources = {identity_id},
                                         !.targets = new_targets]
                       ELSE IF v = vertex_id
                       THEN [@[v] EXCEPT !.targets = {identity_id}]
                       ELSE @[v]],
                    !.edges = [e \in DOMAIN @ |->
                       IF e \in new_targets
                       THEN [@[e] EXCEPT !.sources = Replace(@, vertex_id, new_vertex_id)]
                       ELSE @[e]],
                    !.outputs = Replace(@, vertex_id, new_vertex_id)],
           id |-> identity_id, err |-> "none"]

\* insert_vertex_to_edge_identities, from port port_num on: every source port
\* of the edge that holds the vertex gets its own new vertex and identity.
\* [g, identity_ids, err]
RECURSIVE VertexToEdgePorts(_, _, _, _, _)
VertexToEdgePorts(g, vertex_id, edge_id, port_num, identity_ids) ==
  IF port_num > Len(g.edges[edge_id].sources)
  THEN [g |-> g, identity_ids |-> identity_ids, err |-> "none"]
  ELSE IF g.edges[edge_id].sources[port_num] # vertex_id
  THEN VertexToEdgePorts(g, vertex_id, edge_id, port_num + 1, identity_ids)
  ELSE
  LET old_vertex == g.vertices[vertex_id]
      r1 == add_vertex(g, DeepCopyRecord(old_vertex, <<g.gid, NextId(g.vertices)>>))
      new_vertex_id == r1.id
      ci == create_identity(r1.g, <<vertex_id>>, <<new_vertex_id>>)
      r2 == add_edge(r1.g, ci.edge)
      identity_id == r2.id
      g3 == [r2.g EXCEPT
               !.vertices = [v \in DOMAIN @ |->
                  IF v = new_vertex_id
                  THEN [@[v] EXCEPT !.sources = {identity_id}, !.targets = {edge_id}]
                  ELSE IF v = vertex_id
                  THEN [@[v] EXCEPT !.targets = (@ \ {edge_id}) \cup {identity_id}]
                  ELSE @[v]],
               !.edges[edge_id].sources[port_num] = new_vertex_id]
  IN IF ci.err # "none" THEN [g |-> r1.g, identity_ids |-> identity_ids, err |-> ci.err]
     ELSE IF r2.err # "none"
     THEN [g |-> r2.g, identity_ids |-> identity_ids, err |-> r2.err]
     ELSE VertexToEdgePorts(g3, vertex_id, edge_id, port_num + 1,
                            identity_ids \cup {identity_id})

insert_vertex_to_edge_identities(g, vertex_id, edge_id) ==
  VertexToEdgePorts(g, vertex_id, edge_id, 1, {})

(* --------------------------- layer_decomp ------------------------------ *)
\* A loop over a set of ids that misses the smallest one.
SetToSeqWithoutFirst(S) ==
  [n \in 1..(Cardinality(S) - 1) |->
     CHOOSE x \in S : Cardinality({y \in S : y <= x}) = n + 1]

\* The ids of a set in the order a loop over it visits them.
RECURSIVE SetToSeq(_)
SetToSeq(S) == IF S = {} THEN <<>> ELSE <<Min(S)>> \o SetToSeq(S \ {Min(S)})

\* ready_edges.add(identity_id), identity_id being the result r of
\* insert_identity_after.
IdentityReady(st, r) ==
  [st EXCEPT !.g = r.g, !.err = r.err, !.ready_edges = @ \cup {r.id}]

\* ready_edges.add(identity_id); new_identities.add(identity_id)
NewIdentityReady(st, r) ==
  [g |-> r.g, ready_edges |-> st.ready_edges \cup {r.id},
   new_identities |-> st.new_identities \cup {r.id}, err |-> r.err]

\* new_identities |= identity_ids; ready_edges |= new_identities, identity_ids
\* being the result r of insert_vertex_to_edge_identities.
NewIdentitiesReady(st, r) ==
  [g |-> r.g,
   ready_edges |-> st.ready_edges \cup st.new_identities \cup r.identity_ids,
   new_identities |-> st.new_identities \cup r.identity_ids, err |-> r.err]

\* if vertex_id in decomposed.outputs: the vertex is split and its identity
\* is new and ready.
SplitOutput(st, vertex_id) ==
  IF vertex_id \in Range(st.g.outputs)
  THEN NewIdentityReady(st, insert_identity_after(st.g, vertex_id))
  ELSE st

\* for input in decomposed.inputs: an input that is also an output is split
\* and its identity is ready.  st = [g, ready_edges, new_identities, err]
RECURSIVE SplitInputs(_, _, _)
SplitInputs(st, inputs, i) ==
  IF i > Len(inputs) \/ st.err # "none" THEN st
  ELSE IF inputs[i] \in Range(st.g.outputs)
  THEN SplitInputs(IdentityReady(st, insert_identity_after(st.g, inputs[i])),
                   inputs, i + 1)
  ELSE SplitInputs(st, inputs, i + 1)

\* A readiness test that every edge passes.
SourcesPlacedAlways(g, edge_id, placed_vertices) == TRUE

\* all(vertex_id in placed_vertices for vertex_id in edge.sources)
SourcesPlaced(g, edge_id, placed_vertices) ==
  \A i \in DOMAIN g.edges[edge_id].sources :
     g.edges[edge_id].sources[i] \in placed_vertices

\* for edge_id in vertex_targets: a target edge that is not ready gets
\* identities between the vertex and it; every new identity is ready.
RECURSIVE TraverseTargets(_, _, _)
TraverseTargets(st, vertex_id, todo) ==
  IF todo = {} \/ st.err # "none" THEN st
  ELSE LET edge_id == Min(todo)
       IN IF edge_id \in st.ready_edges
          THEN TraverseTargets(st, vertex_id, todo \ {edge_id})
          ELSE TraverseTargets(
                 NewIdentitiesReady(
                   st, insert_vertex_to_edge_identities(st.g, vertex_id, edge_id)),
                 vertex_id, todo \ {edge_id})

\* vertex_targets = decomposed.vertices[vertex_id].targets.copy(), and the
\* loop over it.
TraverseVertex(st, vertex_id) ==
  IF st.err # "none" THEN st
  ELSE TraverseTargets(st, vertex_id, st.g.vertices[vertex_id].targets)

\* for vertex_id in prev_vertex_layer: an output is split, then the targets
\* of the vertex are traversed.
RECURSIVE TraverseLayer(_, _, _)
TraverseLayer(st, prev_vertex_layer, i) ==
  IF i > Len(prev_vertex_layer) \/ st.err # "none" THEN st
  ELSE TraverseLayer(
         TraverseVertex(SplitOutput(st, prev_vertex_layer[i]), prev_vertex_layer[i]),
         prev_vertex_layer, i + 1)

\* [v for e in layer for v in edges[e].targets]
RECURSIVE TargetsOf(_, _, _)
TargetsOf(g, layer, i) ==
  IF i > Len(layer) THEN <<>>
  ELSE g.edges[layer[i]].targets \o TargetsOf(g, layer, i + 1)

\* [v for e in layer for v in edges[e].sources]
RECURSIVE SourcesOf(_, _, _)
SourcesOf(g, layer, i) ==
  IF i > Len(layer) THEN <<>>
  ELSE g.edges[layer[i]].sources \o SourcesOf(g, layer, i + 1)

\* The rest of a pass without the check of the layer against new_identities.
PlaceLayerWithoutCheck(l, st) ==
  LET current_layer == SetToSeq(st.ready_edges)
      unplaced == l.unplaced_edges \ st.ready_edges
      prev == TargetsOf(st.g, current_layer, 1)
  IN [g |-> st.g,
      l |-> [l EXCEPT !.ready_edges = {},
                      !.new_identities = st.new_identities,
                      !.unplaced_edges = unplaced,
                      !.edge_layers = Append(@, current_layer),
                      !.prev_vertex_layer = prev,
                      !.placed_vertices = @ \cup Range(prev)],
      err |-> st.err]

\* The rest of a pass once the traversal of prev_vertex_layer has left st:
\* the layer is filled, checked and appended, and the next one prepared.
PlaceLayer(l, st) ==
  LET current_layer == SetToSeq(st.ready_edges)
      unplaced == l.unplaced_edges \ st.ready_edges
      l1 == [l EXCEPT !.ready_edges = st.ready_edges,
                      !.new_identities = st.new_identities,
                      !.unplaced_edges = unplaced]
      prev == TargetsOf(st.g, current_layer, 1)
  IN IF st.err # "none" THEN [g |-> st.g, l |-> l1, err |-> st.err]
     ELSE IF \A e \in st.ready_edges : e \in st.new_identities
     THEN [g |-> st.g, l |-> l1, err |-> "CycleDetectedError"]
     ELSE IF unplaced # {}
     THEN [g |-> st.g,
           l |-> [l1 EXCEPT !.edge_layers = Append(@, current_layer),
                            !.ready_edges = {},
                            !.prev_vertex_layer = prev,
                            !.placed_vertices = @ \cup Range(prev)],
           err |-> "none"]
     ELSE [g |-> st.g, l |-> [l1 EXCEPT !.edge_layers = Append(@, current_layer)],
           err |-> "none"]

\* One pass of the while loop of layer_decomp over the local variables l and
\* the graph g: [g, l, err].
LayerPass(g, l) ==
  PlaceLayer(l, TraverseLayer(
                  [g |-> g,
                   ready_edges |-> l.ready_edges \cup
                      {e \in l.unplaced_edges : SourcesPlaced(g, e, l.placed_vertices)},
                   new_identities |-> l.new_identities, err |-> "none"],
                  l.prev_vertex_layer, 1))

\* insert_edge_to_vertex_identities, from port port_num on: every target port
\* of the edge that holds the vertex gets its own new vertex and identity.
\* [g, identity_ids, err]
RECURSIVE EdgeToVertexPorts(_, _, _, _, _)
EdgeToVertexPorts(g, edge_id, vertex_id, port_num, identity_ids) ==
  IF port_num > Len(g.edges[edge_id].targets)
  THEN [g |-> g, identity_ids |-> identity_ids, err |-> "none"]
  ELSE IF g.edges[edge_id].targets[port_num] # vertex_id
  THEN EdgeToVertexPorts(g, edge_id, vertex_id, port_num + 1, identity_ids)
  ELSE
  LET old_vertex == g.vertices[vertex_id]
      r1 == add_vertex(g, DeepCopyRecord(old_vertex, <<g.gid, NextId(g.vertices)>>))
      new_vertex_id == r1.id
      ci == create_identity(r1.g, <<new_vertex_id>>, <<vertex_id>>)
      r2 == add_edge(r1.g, ci.edge)
      identity_id == r2.id
      g3 == [r2.g EXCEPT
               !.vertices = [v \in DOMAIN @ |->
                  IF v = new_vertex_id
                  THEN [@[v] EXCEPT !.sources = {edge_id}, !.targets = {identity_id}]
                  ELSE IF v = vertex_id
                  THEN [@[v] EXCEPT !.sources = (@ \ {edge_id}) \cup {identity_id}]
                  ELSE @[v]],
               !.edges[edge_id].targets[port_num] = new_vertex_id]
  IN IF ci.err # "none" THEN [g |-> r1.g, identity_ids |-> identity_ids, err |-> ci.err]
     ELSE IF r2.err # "none"
     THEN [g |-> r2.g, identity_ids |-> identity_ids, err |-> r2.err]
     ELSE EdgeToVertexPorts(g3, edge_id, vertex_id, port_num + 1,
                            identity_ids \cup {identity_id})

\* Nothing happens unless the edge is a source edge of the vertex.
insert_edge_to_vertex_identities(g, edge_id, vertex_id) ==
  IF edge_id \in g.vertices[vertex_id].sources
  THEN EdgeToVertexPorts(g, edge_id, vertex_id, 1, {})
  ELSE [g |-> g, identity_ids |-> {}, err |-> "none"]

(* ------------------ crossing-minimising rearrangement ------------------ *)
\* Scores are kept as exact fractions [n, d] with d > 0 (the code uses floats).
Frac(n, d) == [n |-> n, d |-> d]
FracAdd(x, y) == Frac(x.n * y.d + y.n * x.d, x.d * y.d)
FracLess(x, y) == x.n * y.d < y.n * x.d

\* {vertex: i/len(vs) for i, vertex in enumerate(vs)}: a later occurrence of a
\* vertex overwrites an earlier one; only the numerator i is kept here.
Positions(vs) ==
  [v \in Range(vs) |-> Max({i \in DOMAIN vs : vs[i] = v}, 1) - 1]

\* sum(positions[v] if v in positions else 0 for v in ports), numerator only
RECURSIVE SumPositions(_, _, _)
SumPositions(positions, ports, i) ==
  IF i > Len(ports) THEN 0
  ELSE (IF ports[i] \in DOMAIN positions THEN positions[ports[i]] ELSE 0)
       + SumPositions(positions, ports, i + 1)

\* sum(...) / len(ports) if len(ports) != 0 else 0, over the boundary vs
CentreOfMass(vs, ports) ==
  IF Len(ports) = 0 \/ Len(vs) = 0 THEN Frac(0, 1)
  ELSE Frac(SumPositions(Positions(vs), ports, 1), Len(vs) * Len(ports))

\* list.sort(key=...): stable, ascending
RECURSIVE SortBy(_, _, _)
SortBy(done, todo, key) ==
  IF todo = <<>> THEN done
  ELSE LET x == Head(todo)
           k == Cardinality({j \in DOMAIN done : ~FracLess(key[x], key[done[j]])})
       IN SortBy(SubSeq(done, 1, k) \o <<x>> \o SubSeq(done, k + 1, Len(done)),
                 Tail(todo), key)

\* for layer_num in range(len(edge_layers)), layer_num counted from 0
RECURSIVE Rearrange(_, _, _)
Rearrange(g, edge_layers, layer_num) ==
  IF layer_num >= Len(edge_layers) THEN edge_layers
  ELSE
  LET n == Len(edge_layers)
      fwd == layer_num + 1
      bwd == n - layer_num
      source_vertices == IF layer_num = 0 THEN g.inputs
                         ELSE TargetsOf(g, edge_layers[layer_num], 1)
      target_vertices == IF layer_num = 0 THEN g.outputs
                         ELSE SourcesOf(g, edge_layers[n - layer_num + 1], 1)
      edge_positions ==
        [e \in DOMAIN g.edges |->
           FracAdd(IF e \in Range(edge_layers[fwd])
                   THEN CentreOfMass(source_vertices, g.edges[e].sources)
                   ELSE Frac(0, 1),
                   IF e \in Range(edge_layers[bwd])
                   THEN CentreOfMass(target_vertices, g.edges[e].targets)
                   ELSE Frac(0, 1))]
      sorted_fwd == [edge_layers EXCEPT ![fwd] = SortBy(<<>>, @, edge_positions)]
      sorted_bwd == IF fwd = bwd THEN sorted_fwd
                    ELSE [sorted_fwd EXCEPT ![bwd] = SortBy(<<>>, @, edge_positions)]
  IN Rearrange(g, sorted_bwd, layer_num + 1)

(* ---------------------- frobenius_layer_decomp ------------------------ *)
\* for edge_id in vertex_targets: a target edge that is unplaced and not
\* ready gets identities between the vertex and it.
RECURSIVE FrobTraverseTargets(_, _, _, _)
FrobTraverseTargets(st, vertex_id, todo, unplaced_edges) ==
  IF todo = {} \/ st.err # "none" THEN st
  ELSE LET edge_id == Min(todo)
       IN IF edge_id \notin unplaced_edges \/ edge_id \in st.ready_edges
          THEN FrobTraverseTargets(st, vertex_id, todo \ {edge_id}, unplaced_edges)
          ELSE FrobTraverseTargets(
                 NewIdentitiesReady(
                   st, insert_vertex_to_edge_identities(st.g, vertex_id, edge_id)),
                 vertex_id, todo \ {edge_id}, unplaced_edges)

\* vertex_targets = decomposed.vertices[vertex_id].targets.copy(), and the
\* loop over it.
FrobTraverseVertex(st, vertex_id, unplaced_edges) ==
  IF st.err # "none" THEN st
  ELSE FrobTraverseTargets(st, vertex_id, st.g.vertices[vertex_id].targets,
                           unplaced_edges)

\* for vertex_id in ready_vertices: an output is split, then the targets of
\* the vertex are traversed.
RECURSIVE FrobTraverseReady(_, _, _)
FrobTraverseReady(st, todo, unplaced_edges) ==
  IF todo = {} \/ st.err # "none" THEN st
  ELSE FrobTraverseReady(
         FrobTraverseVertex(SplitOutput(st, Min(todo)), Min(todo), unplaced_edges),
         todo \ {Min(todo)}, unplaced_edges)

\* for identity_id in identity_ids: the source vertex of the identity joins
\* the vertex layer.  vt = [g, ready_vertices, current_vertex_layer,
\* unplaced_edges, err]
RECURSIVE JoinVertexLayer(_, _)
JoinVertexLayer(vt, todo) ==
  IF todo = {} THEN vt
  ELSE LET identity_id == Min(todo)
           new_vertex_id == vt.g.edges[identity_id].sources[1]
       IN JoinVertexLayer(
            [vt EXCEPT !.current_vertex_layer = Append(@, new_vertex_id),
                       !.ready_vertices = @ \cup {new_vertex_id}],
            todo \ {identity_id})

\* The sources of the identities r of insert_edge_to_vertex_identities join
\* the vertex layer, then unplaced_edges |= identity_ids.
IdentitiesUnplaced(vt, r) ==
  [JoinVertexLayer([vt EXCEPT !.g = r.g, !.err = r.err], r.identity_ids)
     EXCEPT !.unplaced_edges = @ \cup r.identity_ids]

\* for vertex_id in edge_targets: a target that is not ready is reached
\* through identities, which are still to be placed.
RECURSIVE FrobTargets(_, _, _, _)
FrobTargets(vt, edge_id, edge_targets, i) ==
  IF i > Len(edge_targets) \/ vt.err # "none" THEN vt
  ELSE IF edge_targets[i] \in vt.ready_vertices
  THEN FrobTargets(vt, edge_id, edge_targets, i + 1)
  ELSE FrobTargets(
         IdentitiesUnplaced(
           vt, insert_edge_to_vertex_identities(vt.g, edge_id, edge_targets[i])),
         edge_id, edge_targets, i + 1)

\* for edge_id in current_edge_layer
RECURSIVE FrobEdgeLayer(_, _, _)
FrobEdgeLayer(vt, current_edge_layer, i) ==
  IF i > Len(current_edge_layer) \/ vt.err # "none" THEN vt
  ELSE FrobEdgeLayer(FrobTargets(vt, current_edge_layer[i],
                                 vt.g.edges[current_edge_layer[i]].targets, 1),
                     current_edge_layer, i + 1)

\* The edge layer and the vertex layer vt that the loop over the edge layer
\* has left are appended.
AppendLayers(l, current_edge_layer, vt) ==
  [g |-> vt.g,
   l |-> [l EXCEPT !.unplaced_edges = vt.unplaced_edges,
                   !.ready_vertices = vt.ready_vertices,
                   !.layers = @ \o <<current_edge_layer, vt.current_vertex_layer>>],
   err |-> vt.err]

\* The rest of a pass once the traversal of ready_vertices has left st: the
\* edge layer is filled and checked, the vertex layer follows it.
PlaceFrobeniusLayers(l, st) ==
  LET current_edge_layer == SetToSeq(st.ready_edges)
      unplaced == l.unplaced_edges \ st.ready_edges
      joining == {v \in DOMAIN st.g.vertices :
                    /\ st.g.vertices[v].sources \cap unplaced = {}
                    /\ v \notin l.ready_vertices}
  IN IF st.err # "none"
     THEN [g |-> st.g, l |-> [l EXCEPT !.unplaced_edges = unplaced], err |-> st.err]
     ELSE IF \A e \in st.ready_edges : e \in st.new_identities
     THEN [g |-> st.g, l |-> [l EXCEPT !.unplaced_edges = unplaced],
           err |-> "CycleDetectedError"]
     ELSE AppendLayers(
            l, current_edge_layer,
            FrobEdgeLayer([g |-> st.g,
                           ready_vertices |-> l.ready_vertices \cup joining,
                           current_vertex_layer |-> SetToSeq(joining),
                           unplaced_edges |-> unplaced, err |-> "none"],
                          current_edge_layer, 1))

\* One pass of the while loop of frobenius_layer_decomp: [g, l, err].
FrobeniusPass(g, l) ==
  PlaceFrobeniusLayers(
    l, FrobTraverseReady(
         [g |-> g,
          ready_edges |-> {e \in l.unplaced_edges : SourcesPlaced(g, e, l.ready_vertices)},
          new_identities |-> {}, err |-> "none"],
         l.ready_vertices, l.unplaced_edges))

\* sum(positions[id] if id in positions else 0 for id in ids) / len(ids),
\* positions being those of the layer itself.
FrobCentreOfMass(layer, ids) ==
  IF Len(ids) = 0 \/ Len(layer) = 0 THEN Frac(0, 1)
  ELSE Frac(SumPositions(Positions(layer), ids, 1), Len(layer) * Len(ids))

\* for layer_num in range(1, len(layers)); odd layers hold edges, even layers
\* hold vertices.
RECURSIVE FrobRearrange(_, _, _)
FrobRearrange(g, layers, layer_num) ==
  IF layer_num >= Len(layers) THEN layers
  ELSE
  LET n == Len(layers)
      fwd == layer_num + 1
      bwd == n - layer_num
      prev_fwd_layer == layers[layer_num + 1]
      prev_bwd_layer == layers[n - layer_num + 1]
      sources(id) == IF layer_num % 2 = 0 THEN SetToSeq(g.vertices[id].sources)
                     ELSE g.edges[id].sources
      targets(id) == IF layer_num % 2 = 0 THEN SetToSeq(g.vertices[id].targets)
                     ELSE g.edges[id].targets
      fwd_positions == [id \in Range(layers[fwd]) |->
                          FrobCentreOfMass(prev_fwd_layer, sources(id))]
      bwd_positions == [id \in Range(layers[bwd]) |->
                          FrobCentreOfMass(prev_bwd_layer, targets(id))]
      sorted_fwd == [layers EXCEPT ![fwd] = SortBy(<<>>, @, fwd_positions)]
      sorted_bwd == IF fwd = bwd THEN sorted_fwd
                    ELSE [sorted_fwd EXCEPT ![bwd] = SortBy(<<>>, @, bwd_positions)]
  IN FrobRearrange(g, sorted_bwd, layer_num + 1)

(* ------------------------------- state --------------------------------- *)
NoLoc == [op |-> "none", in_place |-> FALSE]

\* Total number of ports and boundary entries of a graph.
RECURSIVE SumPorts(_, _)
SumPorts(d, S) ==
  IF S = {} THEN 0
  ELSE LET e == Min(S) IN Len(d[e].sources) + Len(d[e].targets) + SumPorts(d, S \ {e})

Weight(g) == SumPorts(g.edges, DOMAIN g.edges) + Len(g.inputs) + Len(g.outputs)

(* ------------------- building a graph call by call --------------------- *)
InitBuild ==
  /\ A = EmptyGraph(0)
  /\ B = EmptyGraph(1)
  /\ C = EmptyGraph(2)
  /\ pc = "build"
  /\ err = "none"
  /\ loc = NoLoc
  /\ nextGid = 3

\* g.add_vertex(Vertex(vtype))
AddVertex ==
  /\ pc = "build"
  /\ Cardinality(DOMAIN A.vertices) < MaxBuildVertices
  /\ \E t \in VTypes :
        A' = add_vertex(A, Vertex(t, <<A.gid, NextId(A.vertices)>>)).g
  /\ err' = "none"
  /\ loc' = [op |-> "add_vertex", in_place |-> TRUE]
  /\ UNCHANGED <<B, C, pc, nextGid>>

\* g.add_edge(Hyperedge(sources, targets, 'f', identity)); a port may name a
\* vertex id that is not in the graph.
AddEdge ==
  /\ pc = "build"
  /\ Cardinality(DOMAIN A.edges) < MaxBuildEdges
  /\ \E s \in BSeq(0..MaxBuildVertices, MaxBuildPorts),
        t \in BSeq(0..MaxBuildVertices, MaxBuildPorts),
        i \in BOOLEAN :
        LET edge == Hyperedge(s, t, "f", i, <<A.gid, NextId(A.edges)>>)
            r == add_edge(A, edge)
        IN /\ A' = r.g
           /\ err' = r.err
           /\ loc' = [op |-> "add_edge", in_place |-> TRUE, edge |-> edge]
  /\ UNCHANGED <<B, C, pc, nextGid>>

\* g.inputs.append(v) by the owner of the graph, v a vertex of the graph.
AppendInput ==
  /\ pc = "build"
  /\ Len(A.inputs) < MaxBuildBoundary
  /\ \E v \in DOMAIN A.vertices : A' = [A EXCEPT !.inputs = Append(@, v)]
  /\ err' = "none"
  /\ loc' = [op |-> "append", in_place |-> TRUE]
  /\ UNCHANGED <<B, C, pc, nextGid>>

\* g.outputs.append(v)
AppendOutput ==
  /\ pc = "build"
  /\ Len(A.outputs) < MaxBuildBoundary
  /\ \E v \in DOMAIN A.vertices : A' = [A EXCEPT !.outputs = Append(@, v)]
  /\ err' = "none"
  /\ loc' = [op |-> "append", in_place |-> TRUE]
  /\ UNCHANGED <<B, C, pc, nextGid>>

NextBuild == AddVertex \/ AddEdge \/ AppendInput \/ AppendOutput

SpecBuild == InitBuild /\ [][NextBuild]_vars

(* ---------------------- graphs the calls can build --------------------- *)
\* add_vertex(Vertex(t)) for each t of types, in order.
RECURSIVE BuildVertices(_, _, _)
BuildVertices(g, types, i) ==
  IF i > Len(types) THEN g
  ELSE BuildVertices(add_vertex(g, Vertex(types[i], <<g.gid, NextId(g.vertices)>>)).g,
                     types, i + 1)

\* add_edge(Hyperedge(...)) for each edge of edges, in order; err is the first
\* error.
RECURSIVE BuildEdges(_, _, _)
BuildEdges(g, edges, i) ==
  IF i > Len(edges) THEN [g |-> g, err |-> "none"]
  ELSE LET e == edges[i]
           r == add_edge(g, Hyperedge(e.sources, e.targets, e.label, e.identity,
                                      <<g.gid, NextId(g.edges)>>))
       IN IF r.err # "none" THEN [g |-> r.g, err |-> r.err]
          ELSE BuildEdges(r.g, edges, i + 1)

\* The graph a caller gets from add_vertex and add_edge calls on an empty
\* graph followed by the assignment of its inputs and outputs.
BuildGraph(gid, types, edges, inputs, outputs) ==
  LET r == BuildEdges(BuildVertices(EmptyGraph(gid), types, 1), edges, 1)
  IN [g |-> [r.g EXCEPT !.inputs = inputs, !.outputs = outputs], err |-> r.err]

\* The edge lists of an operand: no edge, or one edge from one vertex to one.
OperandEdges(V, label, flags) ==
  {<<>>} \cup {<<[sources |-> <<s>>, targets |-> <<t>>, label |-> label, identity |-> i]>> :
                 s \in V, t \in V, i \in flags}

\* g is a graph the calls build with n vertices, at most one edge, and
\* boundaries of at most maxIn and maxOut entries.
IsOperand(g, gid, n, label, flags, maxIn, maxOut) ==
  \E types \in [1..n -> VTypes], edges \in OperandEdges(0..(n - 1), label, flags),
     inputs \in BSeq(0..(n - 1), maxIn), outputs \in BSeq(0..(n - 1), maxOut) :
     LET b == BuildGraph(gid, types, edges, inputs, outputs)
     IN b.err = "none" /\ g = b.g

\* The operand pairs (self, other) of a composition.
InitComp ==
  /\ \E n \in 0..MaxOperandVertices, m \in 0..MaxOperandVertices :
        /\ n + m <= MaxPairVertices
        /\ IsOperand(A, 0, n, "f", {FALSE}, MaxCarriedBoundary, MaxGluedBoundary)
        /\ IsOperand(B, 1, m, "g", BOOLEAN, MaxGluedBoundary, MaxCarriedBoundary)
  /\ C = EmptyGraph(2)
  /\ pc = "pair"
  /\ err = "none"
  /\ loc = NoLoc
  /\ nextGid = 3

\* self.parallel_comp(other, in_place)
ParallelComp ==
  /\ pc = "pair"
  /\ \E in_place \in BOOLEAN :
        \E r \in {parallel_comp(A, B, in_place, nextGid)} :
           /\ A' = IF in_place THEN r.g ELSE A
           /\ C' = IF in_place \/ r.err # "none" THEN C ELSE r.g
           /\ err' = r.err
           /\ loc' = [op |-> "parallel_comp", in_place |-> in_place]
           /\ nextGid' = IF in_place THEN nextGid ELSE nextGid + 1
  /\ pc' = "composed"
  /\ UNCHANGED B

\* self.sequential_comp(other, in_place)
SequentialComp ==
  /\ pc = "pair"
  /\ \E in_place \in BOOLEAN :
        \E r \in {sequential_comp(A, B, in_place, nextGid)} :
           /\ A' = IF in_place THEN r.g ELSE A
           /\ C' = IF in_place \/ r.err # "none" THEN C ELSE r.g
           /\ err' = r.err
           /\ loc' = [op |-> "sequential_comp", in_place |-> in_place]
           /\ nextGid' = IF in_place \/ BoundaryError(A, B) # "none"
                         THEN nextGid ELSE nextGid + 1
  /\ pc' = "composed"
  /\ UNCHANGED B

\* The records of g that are the objects a call on `before` changed take the
\* state the call left them in.
Aliased(g, before, after) ==
  LET changed(d, a) == {k \in DOMAIN d : k \notin DOMAIN a \/ a[k] # d[k]}
      seen(r, d, a) == {k \in changed(d, a) \cap DOMAIN a : d[k].obj = r.obj}
  IN [g EXCEPT
        !.vertices = [v \in DOMAIN @ |->
           IF seen(@[v], before.vertices, after.vertices) = {} THEN @[v]
           ELSE after.vertices[Min(seen(@[v], before.vertices, after.vertices))]],
        !.edges = [e \in DOMAIN @ |->
           IF seen(@[e], before.edges, after.edges) = {} THEN @[e]
           ELSE after.edges[Min(seen(@[e], before.edges, after.edges))]]]

\* The caller goes on to mutate the graph a composition returned:
\* result.insert_identity_after(v), or result.add_edge(Hyperedge([v], [v], 'h')).
MutateResult ==
  /\ pc = "composed"
  /\ err = "none"
  /\ ~loc.in_place
  /\ \E v \in DOMAIN C.vertices, insert \in BOOLEAN :
        \E r \in {IF insert THEN insert_identity_after(C, v)
                  ELSE add_edge(C, Hyperedge(<<v>>, <<v>>, "h", FALSE,
                                             <<C.gid, NextId(C.edges)>>))} :
           /\ C' = r.g
           /\ A' = Aliased(A, C, r.g)
           /\ B' = Aliased(B, C, r.g)
           /\ err' = r.err
  /\ pc' = "mutated"
  /\ UNCHANGED <<loc, nextGid>>

NextComp == ParallelComp \/ SequentialComp \/ MutateResult

SpecComp == InitComp /\ [][NextComp]_vars

(* ----------------------- layer_decomp, pass by pass -------------------- *)
\* Lists of at most k edges over the vertices V with at most budget ports.
RECURSIVE EdgeLists(_, _, _)
EdgeLists(V, k, budget) ==
  IF k = 0 THEN {<<>>}
  ELSE {<<>>} \cup
       UNION {{<<[sources |-> p[1], targets |-> p[2], label |-> "f", identity |-> FALSE]>>
                 \o rest :
                 rest \in EdgeLists(V, k - 1, budget - Len(p[1]) - Len(p[2]))} :
              p \in {q \in BSeq(V, MaxLayerPorts) \X BSeq(V, MaxLayerPorts) :
                       Len(q[1]) + Len(q[2]) <= budget}}

\* The number of ports of a list of edges.
RECURSIVE PortCount(_)
PortCount(edges) ==
  IF edges = <<>> THEN 0
  ELSE Len(Head(edges).sources) + Len(Head(edges).targets) + PortCount(Tail(edges))

\* The lists over V of at most MaxLayerBoundary entries, and at most room.
Boundaries(V, room) ==
  BSeq(V, IF room < MaxLayerBoundary THEN room ELSE MaxLayerBoundary)

\* The graphs of one vertex type with at most MaxLayerSize vertices, ports and
\* boundary entries in all.
InitLayer ==
  /\ \E n \in 0..MaxLayerVertices :
     \E edges \in EdgeLists(0..(n - 1), MaxLayerEdges, MaxLayerSize - n) :
     \E inputs \in Boundaries(0..(n - 1), MaxLayerSize - n - PortCount(edges)) :
     \E outputs \in Boundaries(0..(n - 1),
                               MaxLayerSize - n - PortCount(edges) - Len(inputs)) :
        LET b == BuildGraph(0, [i \in 1..n |-> 0], edges, inputs, outputs)
        IN /\ b.err = "none"
           /\ A = b.g
  /\ B = EmptyGraph(1)
  /\ C = EmptyGraph(2)
  /\ pc = "single"
  /\ err = "none"
  /\ loc = NoLoc
  /\ nextGid = 3

\* The graph a running decomposition works on.
Decomposed == IF loc.in_place THEN A ELSE C

\* self.layer_decomp(in_place), up to the while loop.  loc.self records the
\* receiver as it was when the call was made.
LayerDecompBegin ==
  /\ pc = "single"
  /\ \E in_place \in BOOLEAN :
        \E decomposed \in {Composed(A, in_place, nextGid)} :
        \E st \in {SplitInputs([g |-> decomposed, ready_edges |-> {},
                                new_identities |-> {}, err |-> "none"],
                               decomposed.inputs, 1)} :
           /\ A' = IF in_place THEN st.g ELSE Aliased(A, decomposed, st.g)
           /\ C' = IF in_place THEN C ELSE st.g
           /\ err' = st.err
           /\ pc' = IF st.err = "none" THEN "layering" ELSE "raised"
           /\ nextGid' = IF in_place THEN nextGid ELSE nextGid + 1
           /\ loc' = [op |-> "layer_decomp", in_place |-> in_place,
                      edge_layers |-> <<>>,
                      prev_vertex_layer |-> decomposed.inputs,
                      placed_vertices |-> Range(decomposed.inputs),
                      ready_edges |-> st.ready_edges,
                      unplaced_edges |-> DOMAIN st.g.edges,
                      new_identities |-> {},
                      self |-> A]
  /\ UNCHANGED B

\* One pass of the while loop.
LayerDecompPass ==
  /\ pc = "layering"
  /\ loc.op = "layer_decomp"
  /\ loc.unplaced_edges # {}
  /\ \E r \in {LayerPass(Decomposed, loc)} :
        /\ A' = IF loc.in_place THEN r.g ELSE Aliased(A, Decomposed, r.g)
        /\ C' = IF loc.in_place THEN C ELSE r.g
        /\ loc' = r.l
        /\ err' = r.err
        /\ pc' = IF r.err = "none" THEN "layering" ELSE "raised"
  /\ UNCHANGED <<B, nextGid>>

\* The while loop is left: the layers are rearranged and returned.
LayerDecompReturn ==
  /\ pc = "layering"
  /\ loc.op = "layer_decomp"
  /\ loc.unplaced_edges = {}
  /\ loc' = [loc EXCEPT !.edge_layers = Rearrange(Decomposed, @, 0)]
  /\ pc' = "returned"
  /\ UNCHANGED <<A, B, C, err, nextGid>>

NextLayer == LayerDecompBegin \/ LayerDecompPass \/ LayerDecompReturn

SpecLayer == InitLayer /\ [][NextLayer]_vars

(* ------------------ frobenius_layer_decomp, pass by pass --------------- *)
\* self.frobenius_layer_decomp(in_place), up to the while loop.
FrobeniusBegin ==
  /\ pc = "single"
  /\ \E in_place \in BOOLEAN :
        \E decomposed \in {Composed(A, in_place, nextGid)} :
        \E ready \in {{v \in DOMAIN decomposed.vertices :
                          decomposed.vertices[v].sources = {}}} :
           /\ A' = IF in_place THEN decomposed ELSE A
           /\ C' = IF in_place THEN C ELSE decomposed
           /\ nextGid' = IF in_place THEN nextGid ELSE nextGid + 1
           /\ loc' = [op |-> "frobenius_layer_decomp", in_place |-> in_place,
                      layers |-> <<SetToSeq(ready)>>,
                      ready_vertices |-> ready,
                      unplaced_vertices |-> DOMAIN decomposed.vertices \ ready,
                      unplaced_edges |-> DOMAIN decomposed.edges,
                      self |-> A]
  /\ err' = "none"
  /\ pc' = "layering"
  /\ UNCHANGED B

\* One pass of the while loop.
FrobeniusDecompPass ==
  /\ pc = "layering"
  /\ loc.op = "frobenius_layer_decomp"
  /\ loc.unplaced_edges # {}
  /\ Cardinality(DOMAIN Decomposed.vertices) <= MaxFrobVertices
  /\ \E r \in {FrobeniusPass(Decomposed, loc)} :
        /\ A' = IF loc.in_place THEN r.g ELSE Aliased(A, Decomposed, r.g)
        /\ C' = IF loc.in_place THEN C ELSE r.g
        /\ loc' = r.l
        /\ err' = r.err
        /\ pc' = IF r.err = "none" THEN "layering" ELSE "raised"
  /\ UNCHANGED <<B, nextGid>>

\* The while loop is left: the layers are rearranged and returned.
FrobeniusReturn ==
  /\ pc = "layering"
  /\ loc.op = "frobenius_layer_decomp"
  /\ loc.unplaced_edges = {}
  /\ loc' = [loc EXCEPT !.layers = FrobRearrange(Decomposed, @, 1)]
  /\ pc' = "returned"
  /\ UNCHANGED <<A, B, C, err, nextGid>>

NextFrob == FrobeniusBegin \/ FrobeniusDecompPass \/ FrobeniusReturn

SpecFrob == InitLayer /\ [][NextFrob]_vars

(* ------------------------- every operation ----------------------------- *)
Init == InitBuild \/ InitComp \/ InitLayer

Next == NextBuild \/ NextComp \/ NextLayer \/ NextFrob

Spec == Init /\ [][Next]_vars

(* ============================ properties =============================== *)
\* The adjacency index of g is exact in both directions, and names only
\* vertices and edges of g.
AdjacencyExact(g) ==
  /\ \A e \in DOMAIN g.edges :
        Range(g.edges[e].sources) \cup Range(g.edges[e].targets) \subseteq DOMAIN g.vertices
  /\ \A v \in DOMAIN g.vertices :
        g.vertices[v].sources \cup g.vertices[v].targets \subseteq DOMAIN g.edges
  /\ \A e \in DOMAIN g.edges, v \in DOMAIN g.vertices :
        /\ (v \in Range(g.edges[e].sources)) <=> (e \in g.vertices[v].targets)
        /\ (v \in Range(g.edges[e].targets)) <=> (e \in g.vertices[v].sources)

\* No operation is under way.
Quiescent == pc # "layering"

\* C1: whenever an operation (add_vertex, add_edge, parallel_comp,
\* sequential_comp, layer_decomp, frobenius_layer_decomp) has finished, by
\* returning or by raising, the adjacency index of the receiver and of the
\* graph the operation worked on is exact in both directions.
C1_AdjacencyExact ==
  Quiescent => AdjacencyExact(A) /\ AdjacencyExact(B) /\ AdjacencyExact(C)

\* C1 witness: an in-place frobenius_layer_decomp raised after it had
\* inserted identities into the receiver.
C1_Witness ==
  /\ pc = "raised"
  /\ loc.op = "frobenius_layer_decomp"
  /\ loc.in_place
  /\ \E e \in DOMAIN A.edges : A.edges[e].identity

\* The ports of the edge all name vertices of g.
PortsExist(g, edge) ==
  Range(edge.sources) \cup Range(edge.targets) \subseteq DOMAIN g.vertices

\* C9: an add_edge call whose edge names a vertex id that is not in the graph
\* fails with ReferenceError, and a failed add_edge call leaves the graph
\* (vertices with their sources and targets, edges, inputs, outputs) as it was.
C9_AddEdgeFailure ==
  [][(pc = "build" /\ loc'.op = "add_edge") =>
        /\ ~PortsExist(A, loc'.edge) => err' = "ReferenceError"
        /\ err' # "none" => A' = A]_vars

\* C9 witness: add_edge failed with ReferenceError on a graph that has a
\* vertex and an edge.
C9_Witness ==
  /\ loc.op = "add_edge"
  /\ err = "ReferenceError"
  /\ ~PortsExist(A, loc.edge)
  /\ DOMAIN A.vertices # {}
  /\ DOMAIN A.edges # {}

\* Every identity edge of g has equal arities and pairwise equal vertex types.
IdentitiesTyped(g) ==
  \A e \in DOMAIN g.edges :
     g.edges[e].identity =>
        /\ Len(g.edges[e].sources) = Len(g.edges[e].targets)
        /\ \A i \in DOMAIN g.edges[e].sources :
              g.vertices[g.edges[e].sources[i]].vtype
                 = g.vertices[g.edges[e].targets[i]].vtype

\* The identity edge over existing vertices breaks the arity or type rule.
IllTypedIdentity(g, edge) ==
  /\ edge.identity
  /\ PortsExist(g, edge)
  /\ \/ Len(edge.sources) # Len(edge.targets)
     \/ \E i \in DOMAIN edge.sources :
           g.vertices[edge.sources[i]].vtype # g.vertices[edge.targets[i]].vtype

\* C10: in every graph before and after every step, each identity edge has
\* as many sources as targets and pairwise equal vertex types; add_edge
\* rejects an identity edge over existing vertices that breaks this with
\* TypeMismatchError.
C10_IdentitiesTyped ==
  [][/\ IdentitiesTyped(A) /\ IdentitiesTyped(B) /\ IdentitiesTyped(C)
     /\ IdentitiesTyped(A') /\ IdentitiesTyped(B') /\ IdentitiesTyped(C')
     /\ (pc = "build" /\ loc'.op = "add_edge" /\ IllTypedIdentity(A, loc'.edge))
           => err' = "TypeMismatchError"]_vars

\* C10 witness: layer_decomp returned a graph with an identity it inserted
\* between vertices of the same type.
C10_Witness ==
  /\ pc = "returned"
  /\ loc.op = "layer_decomp"
  /\ \E e \in DOMAIN Decomposed.edges \ DOMAIN loc.self.edges :
        /\ Decomposed.edges[e].identity
        /\ IdentitiesTyped(Decomposed)

(* ----------------------------- composition ----------------------------- *)
\* The graph an operation worked on: the receiver, or its copy.
Result == IF loc.in_place THEN A ELSE C

\* The step is a call of the composition op.
CompStep(op) == pc = "pair" /\ pc' = "composed" /\ loc'.op = op

\* [f[x] for x in ids]
Map(f, ids) == [i \in DOMAIN ids |-> f[ids[i]]]

Injections(S, T) == {f \in [S -> T] : \A x, y \in S : f[x] = f[y] => x = y}

\* Some paired output and input vertices differ in vtype.
BoundaryTypesDiffer(a, b) ==
  \E i \in DOMAIN a.outputs :
     a.vertices[a.outputs[i]].vtype # b.vertices[b.inputs[i]].vtype

\* C5: sequential_comp fails with ArityMismatchError when the number of
\* outputs of A differs from the number of inputs of B, and with
\* TypeMismatchError when the numbers agree and some paired vertices differ
\* in vtype; in both cases, in place or not, A and B stay as they were.
C5_SequentialCompFailure ==
  [][CompStep("sequential_comp") =>
        /\ Len(A.outputs) # Len(B.inputs)
              => err' = "ArityMismatchError" /\ A' = A /\ B' = B
        /\ (Len(A.outputs) = Len(B.inputs) /\ BoundaryTypesDiffer(A, B))
              => err' = "TypeMismatchError" /\ A' = A /\ B' = B]_vars

\* C5 witness: an in-place sequential_comp failed with TypeMismatchError on a
\* receiver with an edge.
C5_Witness ==
  /\ pc = "composed"
  /\ loc.op = "sequential_comp"
  /\ loc.in_place
  /\ err = "TypeMismatchError"
  /\ DOMAIN A.edges # {}
  /\ Len(A.outputs) = 2

\* r keeps every vertex and edge of a with its id, type, ports, label and flag.
Keeps(r, a) ==
  /\ \A v \in DOMAIN a.vertices :
        v \in DOMAIN r.vertices /\ r.vertices[v].vtype = a.vertices[v].vtype
  /\ \A e \in DOMAIN a.edges :
        /\ e \in DOMAIN r.edges
        /\ r.edges[e].sources = a.edges[e].sources
        /\ r.edges[e].targets = a.edges[e].targets
        /\ r.edges[e].label = a.edges[e].label
        /\ r.edges[e].identity = a.edges[e].identity

\* The edge copy in r is the edge orig with its label and flag, each port
\* related to the port of orig by Port(x, y).
CopyOf(copy, orig, Port(_, _)) ==
  /\ copy.label = orig.label
  /\ copy.identity = orig.identity
  /\ Len(copy.sources) = Len(orig.sources)
  /\ Len(copy.targets) = Len(orig.targets)
  /\ \A i \in DOMAIN orig.sources : Port(orig.sources[i], copy.sources[i])
  /\ \A i \in DOMAIN orig.targets : Port(orig.targets[i], copy.targets[i])

\* C7: parallel_comp succeeds with the disjoint union of A and a translated
\* copy of B: the counts add up, inputs and outputs are those of A followed
\* by the translated ones of B, every edge of B has a copy with its ports
\* translated in order and its label and flag kept, A's part is kept, and no
\* edge has ports on both sides.
C7_ParallelComp ==
  [][CompStep("parallel_comp") =>
        LET R == Result'
            newV == DOMAIN R.vertices \ DOMAIN A.vertices
            newE == DOMAIN R.edges \ DOMAIN A.edges
        IN /\ err' = "none"
           /\ Cardinality(DOMAIN R.vertices)
                 = Cardinality(DOMAIN A.vertices) + Cardinality(DOMAIN B.vertices)
           /\ Cardinality(DOMAIN R.edges)
                 = Cardinality(DOMAIN A.edges) + Cardinality(DOMAIN B.edges)
           /\ Keeps(R, A)
           /\ \E vm \in Injections(DOMAIN B.vertices, newV),
                 em \in Injections(DOMAIN B.edges, newE) :
                 LET Port(x, y) == y = vm[x]
                 IN /\ R.inputs = A.inputs \o Map(vm, B.inputs)
                    /\ R.outputs = A.outputs \o Map(vm, B.outputs)
                    /\ \A v \in DOMAIN B.vertices :
                          R.vertices[vm[v]].vtype = B.vertices[v].vtype
                    /\ \A e \in DOMAIN B.edges :
                          CopyOf(R.edges[em[e]], B.edges[e], Port)
           /\ \A e \in DOMAIN R.edges :
                 LET ports == Range(R.edges[e].sources) \cup Range(R.edges[e].targets)
                 IN ports \subseteq DOMAIN A.vertices \/ ports \subseteq newV]_vars

\* C7 witness: a parallel_comp of two graphs that both have an edge and a
\* boundary returned.
C7_Witness ==
  /\ pc = "composed"
  /\ loc.op = "parallel_comp"
  /\ ~loc.in_place
  /\ DOMAIN A.edges # {}
  /\ DOMAIN B.edges # {}
  /\ Len(C.inputs) = 2
  /\ Len(C.outputs) = 2

\* The result R of a successful sequential_comp of a and b has the inputs of
\* a, keeps a's vertices and edges, has |a.V| + |b.V| - (distinct input
\* vertices of b) vertices and |a.E| + |b.E| edges, and holds one copy of
\* every edge of b; a port or output that named a vertex of b that is not an
\* input names its fresh copy, and one that named an input vertex x of b
\* names a vertex y with Glued(x, y).
SequentialResult(R, a, b, Glued(_, _)) ==
  LET kept == DOMAIN b.vertices \ Range(b.inputs)
      newV == DOMAIN R.vertices \ DOMAIN a.vertices
      newE == DOMAIN R.edges \ DOMAIN a.edges
  IN /\ R.inputs = a.inputs
     /\ Keeps(R, a)
     /\ Cardinality(DOMAIN R.vertices)
           = Cardinality(DOMAIN a.vertices) + Cardinality(kept)
     /\ Cardinality(DOMAIN R.edges)
           = Cardinality(DOMAIN a.edges) + Cardinality(DOMAIN b.edges)
     /\ \E fresh \in Injections(kept, newV), em \in Injections(DOMAIN b.edges, newE) :
           LET Port(x, y) == IF x \in kept THEN y = fresh[x] ELSE Glued(x, y)
           IN /\ Len(R.outputs) = Len(b.outputs)
              /\ \A i \in DOMAIN b.outputs : Port(b.outputs[i], R.outputs[i])
              /\ \A v \in kept : R.vertices[fresh[v]].vtype = b.vertices[v].vtype
              /\ \A e \in DOMAIN b.edges : CopyOf(R.edges[em[e]], b.edges[e], Port)

\* C6 as stated: a successful sequential_comp yields such a result, in which
\* a port that named the i-th input vertex of B names the i-th output vertex
\* of A, for every i.
C6_AsStated ==
  [][(CompStep("sequential_comp") /\ err' = "none") =>
        LET Glued(x, y) == \A i \in DOMAIN B.inputs : B.inputs[i] = x => y = A.outputs[i]
        IN SequentialResult(Result', A, B, Glued)]_vars

\* No vertex record and no edge record of r is a record of g.
NoSharedRecords(r, g) ==
  /\ \A v \in DOMAIN r.vertices, w \in DOMAIN g.vertices :
        r.vertices[v].obj # g.vertices[w].obj
  /\ \A e \in DOMAIN r.edges, f \in DOMAIN g.edges :
        r.edges[e].obj # g.edges[f].obj

\* C8: a composition leaves other as it was, and with in_place false the
\* receiver too; a result returned with in_place false shares no vertex or
\* edge record with either operand, and a later insert_identity_after or
\* add_edge on it changes neither operand.
C8_CompositionFrame ==
  [][/\ (pc = "pair" /\ pc' = "composed") =>
           /\ B' = B
           /\ ~loc'.in_place =>
                 /\ A' = A
                 /\ err' = "none" =>
                       NoSharedRecords(C', A') /\ NoSharedRecords(C', B')
     /\ (pc = "composed" /\ pc' = "mutated") => A' = A /\ B' = B]_vars

\* C8 witness: the result of a sequential_comp of two graphs with an edge
\* each was mutated.
C8_Witness ==
  /\ pc = "mutated"
  /\ loc.op = "sequential_comp"
  /\ DOMAIN A.edges # {}
  /\ DOMAIN B.edges # {}
  /\ Cardinality(DOMAIN C.edges) = 3

(* ------------------------------ layering ------------------------------- *)
\* The vertices an edge leaving v leads to.
Succ(g, v) ==
  UNION {Range(g.edges[e].targets) :
           e \in {f \in DOMAIN g.edges : v \in Range(g.edges[f].sources)}}

\* The vertices reachable from S along edges, S included.
RECURSIVE ReachableFrom(_, _)
ReachableFrom(g, S) ==
  LET T == S \cup UNION {Succ(g, v) : v \in S}
  IN IF T = S THEN S ELSE ReachableFrom(g, T)

OnCycle(g, v) == v \in ReachableFrom(g, Succ(g, v))

Acyclic(g) == \A v \in DOMAIN g.vertices : ~OnCycle(g, v)

\* Every vertex has at most one producing edge.
SourceMonogamous(g) ==
  \A v \in DOMAIN g.vertices : Cardinality(g.vertices[v].sources) <= 1

\* Every source vertex of every edge is an input or has a producing edge.
SourcesFed(g) ==
  \A e \in DOMAIN g.edges : \A v \in Range(g.edges[e].sources) :
     v \in Range(g.inputs) \/ g.vertices[v].sources # {}

\* The places <<layer, position>> at which the id occurs in the layers.
Places(layers, id) ==
  UNION {{<<k, i>> : i \in {j \in DOMAIN layers[k] : layers[k][j] = id}} :
           k \in DOMAIN layers}

\* Every edge of self occurs at exactly one place of the layers.
LayeredOnce(layers, self) ==
  \A e \in DOMAIN self.edges : Cardinality(Places(layers, e)) = 1

\* What C2 says of the steps of a layer_decomp call on a graph that Pre
\* admits: no pass raises, every pass that does not end the loop leaves fewer
\* edges unplaced, and the layers returned hold every edge of self once.
LayersEveryEdge(Pre(_)) ==
  (loc'.op = "layer_decomp" /\ Pre(loc'.self)) =>
     /\ pc' # "raised"
     /\ (pc = "layering" /\ pc' = "layering") =>
           Cardinality(loc'.unplaced_edges) < Cardinality(loc.unplaced_edges)
     /\ pc' = "returned" => LayeredOnce(loc'.edge_layers, loc'.self)

\* C2 as stated: on every acyclic, source-monogamous graph layer_decomp
\* terminates and returns layers that hold every original edge exactly once.
C2_AsStated ==
  [][LET Pre(g) == Acyclic(g) /\ SourceMonogamous(g)
     IN LayersEveryEdge(Pre)]_vars

\* C2: on every acyclic, source-monogamous graph in which every source vertex
\* of every edge is an input or has a producing edge, layer_decomp terminates
\* and returns layers that hold every original edge exactly once.
C2_LayersEveryEdge ==
  [][LET Pre(g) == Acyclic(g) /\ SourceMonogamous(g) /\ SourcesFed(g)
     IN LayersEveryEdge(Pre)]_vars

\* C2 witness: layer_decomp returned at least two layers for such a graph
\* with two edges, after inserting an identity.
C2_Witness ==
  /\ pc = "returned"
  /\ loc.op = "layer_decomp"
  /\ Acyclic(loc.self) /\ SourceMonogamous(loc.self) /\ SourcesFed(loc.self)
  /\ Cardinality(DOMAIN loc.self.edges) = 2
  /\ Len(loc.edge_layers) >= 2
  /\ DOMAIN Decomposed.edges # DOMAIN loc.self.edges

\* The vertex is an input of g or a target of an edge in a layer before k.
ProducedBefore(g, layers, k, v) ==
  \/ v \in Range(g.inputs)
  \/ \E j \in 1..(k - 1) : \E i \in DOMAIN layers[j] :
        v \in Range(g.edges[layers[j][i]].targets)

\* C3 as stated: in the layers layer_decomp returns for an acyclic,
\* source-monogamous graph, every source vertex (in the returned graph) of
\* every edge in layer k is an input or a target of an edge in a layer
\* before k.
C3_AsStated ==
  (/\ pc = "returned"
   /\ loc.op = "layer_decomp"
   /\ Acyclic(loc.self)
   /\ SourceMonogamous(loc.self)) =>
     \A k \in DOMAIN loc.edge_layers : \A i \in DOMAIN loc.edge_layers[k] :
        \A v \in Range(Decomposed.edges[loc.edge_layers[k][i]].sources) :
           ProducedBefore(Decomposed, loc.edge_layers, k, v)

\* Some vertex on a cycle is not reachable from the seeds.
CycleOutOfReach(g, seeds) ==
  \E v \in DOMAIN g.vertices : OnCycle(g, v) /\ v \notin ReachableFrom(g, seeds)

\* The targets of the edges that have no sources.
Generated(g) ==
  UNION {Range(g.edges[e].targets) : e \in {f \in DOMAIN g.edges : g.edges[f].sources = <<>>}}

\* What C4 says of the steps of a layer_decomp call on a graph with a cycle
\* out of reach of the seeds: it never returns, what it raises is
\* CycleDetectedError, and every pass that neither raises nor ends the loop
\* leaves fewer edges unplaced.
FailsOnCycle(Seeds(_)) ==
  (loc'.op = "layer_decomp" /\ CycleOutOfReach(loc'.self, Seeds(loc'.self))) =>
     /\ pc' # "returned"
     /\ pc' = "raised" => err' = "CycleDetectedError"
     /\ (pc = "layering" /\ pc' = "layering") =>
           Cardinality(loc'.unplaced_edges) < Cardinality(loc.unplaced_edges)

NewVertexIds(g, g2) == DOMAIN g2.vertices \ DOMAIN g.vertices
NewEdgeIds(g, g2) == DOMAIN g2.edges \ DOMAIN g.edges

\* g2 has every id of g, and every id it has beyond them is greater than
\* every id of g.
IdsGrow(g, g2) ==
  /\ DOMAIN g.vertices \subseteq DOMAIN g2.vertices
  /\ DOMAIN g.edges \subseteq DOMAIN g2.edges
  /\ \A new \in NewVertexIds(g, g2), old \in DOMAIN g.vertices : new > old
  /\ \A new \in NewEdgeIds(g, g2), old \in DOMAIN g.edges : new > old

\* C11: over every step of every operation (add_vertex, add_edge, the
\* compositions, the mutation of a composed graph, the decompositions with
\* their identity insertion) a hypergraph keeps the ids it has, and every id
\* it gains is greater than every id it had; a graph that starts as a copy of
\* the receiver has the receiver's ids and greater ones.  add_vertex never
\* fails and stores exactly one new id, a successful add_edge stores exactly
\* one new id, and a decomposition step, which calls add_vertex once for each
\* identity it adds, gains as many vertex ids as edge ids.
C11_FreshIds ==
  [][/\ IdsGrow(A, A')
     /\ IdsGrow(B, B')
     /\ IF C'.gid = C.gid THEN IdsGrow(C, C') ELSE IdsGrow(A, C')
     /\ (pc = "build" /\ loc'.op = "add_vertex") =>
           err' = "none" /\ Cardinality(NewVertexIds(A, A')) = 1
     /\ (pc = "build" /\ loc'.op = "add_edge" /\ err' = "none") =>
           Cardinality(NewEdgeIds(A, A')) = 1
     /\ loc'.op \in {"layer_decomp", "frobenius_layer_decomp"} =>
           /\ Cardinality(NewVertexIds(A, A')) = Cardinality(NewEdgeIds(A, A'))
           /\ C'.gid = C.gid =>
                 Cardinality(NewVertexIds(C, C')) = Cardinality(NewEdgeIds(C, C'))
           /\ C'.gid # C.gid =>
                 Cardinality(NewVertexIds(A, C')) = Cardinality(NewEdgeIds(A, C'))]_vars

\* C11 witness: an identity was inserted into the result of a parallel
\* composition of two graphs, which then has four vertices.
C11_Witness ==
  /\ pc = "mutated"
  /\ loc.op = "parallel_comp"
  /\ err = "none"
  /\ DOMAIN C.vertices = 0..3
  /\ \E e \in DOMAIN C.edges : C.edges[e].identity /\ C.edges[e].sources # C.edges[e].targets

(* ------------------- inputs that are outputs, layered ------------------ *)
\* The vertices reached from the vertices S through identity edges alone.
RECURSIVE IdentityReach(_, _)
IdentityReach(g, S) ==
  LET next == S \cup UNION {Range(g.edges[e].targets) :
                              e \in {f \in DOMAIN g.edges :
                                       /\ g.edges[f].identity
                                       /\ Range(g.edges[f].sources) \cap S # {}}}
  IN IF next = S THEN S ELSE IdentityReach(g, next)

\* The edge layers a decomposition returned: all of them for layer_decomp,
\* every second one for frobenius_layer_decomp.
ReturnedEdgeLayers ==
  IF loc.op = "layer_decomp" THEN loc.edge_layers
  ELSE [k \in 1..(Len(loc.layers) \div 2) |-> loc.layers[2 * k]]

\* What C12 says of a returned decomposition of self into the graph r with
\* the edge layers layers.
InputOutputsSplit(self, r, layers) ==
  /\ \A v \in Range(self.inputs) \cap Range(self.outputs) :
        /\ \E e \in DOMAIN r.edges \ DOMAIN self.edges :
              /\ r.edges[e].identity
              /\ r.edges[e].sources = <<v>>
              /\ Range(r.edges[e].targets) \cap DOMAIN self.vertices = {}
              /\ \E k \in DOMAIN layers : e \in Range(layers[k])
        /\ \A i \in DOMAIN self.outputs :
              self.outputs[i] = v =>
                 /\ r.outputs[i] \notin DOMAIN self.vertices
                 /\ r.outputs[i] \in IdentityReach(r, {v})
  /\ Range(r.inputs) \cap Range(r.outputs) = {}

\* C12 as stated: when layer_decomp or frobenius_layer_decomp returns, every
\* vertex that was both an input and an output of the operand is the source
\* of a new identity edge that is in the returned layers and leads to a new
\* vertex, the new vertex reached through identities stands for it in the
\* outputs, and no vertex of the returned graph is both an input and an
\* output.
C12_AsStated ==
  (pc = "returned" /\ loc.op \in {"layer_decomp", "frobenius_layer_decomp"}) =>
     InputOutputsSplit(loc.self, Decomposed, ReturnedEdgeLayers)

\* The same of layer_decomp alone.
C12_LayerDecompSplits ==
  (pc = "returned" /\ loc.op = "layer_decomp") =>
     InputOutputsSplit(loc.self, Decomposed, ReturnedEdgeLayers)

(* ------------------- decomposition with in_place false ----------------- *)
\* C13: at every step of a layer_decomp or frobenius_layer_decomp call with
\* in_place false, up to its return or its raise, the receiver is as it was
\* when the call was made (vertices with their sources and targets, edges
\* with their port lists, inputs, outputs), and the graph the call works on
\* shares no vertex or edge record with it.
C13_DecompositionFrame ==
  [][(loc'.op \in {"layer_decomp", "frobenius_layer_decomp"} /\ ~loc'.in_place) =>
        /\ A' = loc'.self
        /\ pc = "single" => A' = A
        /\ NoSharedRecords(C', A')]_vars

\* C13 witness: a decomposition with in_place false raised CycleDetectedError
\* after it had inserted an identity into its copy of a receiver with an edge.
C13_Witness ==
  /\ pc = "raised"
  /\ err = "CycleDetectedError"
  /\ loc.op \in {"layer_decomp", "frobenius_layer_decomp"}
  /\ ~loc.in_place
  /\ DOMAIN A.edges # {}
  /\ \E e \in DOMAIN C.edges \ DOMAIN A.edges : C.edges[e].identity

(* ======================================================================= *)
(* Neural networks (src/hypnn/neuralnetwork.py): a NeuralNetwork is a      *)
(* hypergraph whose vertices are Variables [vtype, sources, targets, obj,  *)
(* value, name] and whose edges are Operations [sources, targets, label,   *)
(* identity, obj, operation, reverse_derivative].  A value is a tensor     *)
(* [shape, x], the shape being a vtype, or None; the callables the caller  *)
(* attaches to edges are named.  Iteration over a set of ids in            *)
(* topological_sort is taken in any order.                                 *)
(* ======================================================================= *)
\* The networks topological_sort and compute are called on.
MaxNetVertices == 3
MaxNetEdges == 2
MaxNetSources == 2
MaxNetTargets == 1
MaxNetPorts == 4
MaxNetInputs == 2

\* The value None.
None == [shape |-> -1, x |-> 0]

\* A numpy array of the shape with every entry x.
Tensor(shape, x) == [shape |-> shape, x |-> x]

\* Variable(vtype, value, name)
Variable(vtype, value, name, obj) ==
  [vtype |-> vtype, sources |-> {}, targets |-> {}, obj |-> obj,
   value |-> value, name |-> name]

\* A set_value that takes a value of any shape.
set_value_any_shape(vertex, value) ==
  [vertex |-> [vertex EXCEPT !.value = value], err |-> "none"]

\* Variable.set_value: [vertex, err]
set_value(vertex, value) ==
  IF value = None THEN [vertex |-> [vertex EXCEPT !.value = value], err |-> "none"]
  ELSE IF value.shape # vertex.vtype
  THEN [vertex |-> vertex, err |-> "ShapeMismatchError"]
  ELSE [vertex |-> [vertex EXCEPT !.value = value], err |-> "none"]

\* Operation(operation, sources, targets, reverse_derivative, label, identity)
Operation(operation, sources, targets, reverse_derivative, label, identity, obj) ==
  [sources |-> sources, targets |-> targets, label |-> label, identity |-> identity,
   obj |-> obj, operation |-> operation, reverse_derivative |-> reverse_derivative]

\* An identity whose reverse derivative is its forward operation.
Operation_create_identity_forward(sources, targets, obj) ==
  Operation("id", sources, targets, "id", <<"id">>, TRUE, obj)

\* Operation.create_identity(sources, targets)
Operation_create_identity(sources, targets, obj) ==
  Operation("id", sources, targets, "id_rd", <<"id">>, TRUE, obj)

\* x[i] + ... + x[n] of the entries of the values xs
RECURSIVE SumEntries(_, _)
SumEntries(xs, i) == IF i > Len(xs) THEN 0 ELSE xs[i].x + SumEntries(xs, i + 1)

\* The callables on the edges, applied to a list of values: [values, err].
\*   "id"      lambda x: x                          (Operation.create_identity)
\*   "id_rd"   lambda xs: [xs[1]] or [None]         (Operation.create_identity)
\*   "sum"     lambda xs: [sum(xs, np.zeros(()))]   (supplied by the caller)
\*   "sum_rd"  lambda xs: [xs[-1]] * (len(xs) - 1)  (supplied by the caller)
Apply(operation, xs) ==
  CASE operation = "id" -> [values |-> xs, err |-> "none"]
    [] operation = "id_rd" ->
         IF Len(xs) < 2 THEN [values |-> <<>>, err |-> "IndexError"]
         ELSE [values |-> <<xs[2]>>, err |-> "none"]
    [] operation = "sum" ->
         IF \E i \in DOMAIN xs : xs[i] = None
         THEN [values |-> <<>>, err |-> "TypeError"]
         ELSE [values |-> <<Tensor(Max({xs[i].shape : i \in DOMAIN xs}, 0),
                                   SumEntries(xs, 1))>>,
               err |-> "none"]
    [] operation = "sum_rd" ->
         IF xs = <<>> THEN [values |-> <<>>, err |-> "IndexError"]
         ELSE [values |-> [i \in 1..(Len(xs) - 1) |-> xs[Len(xs)]], err |-> "none"]
    [] OTHER -> [values |-> <<>>, err |-> "TypeError"]

(* --------------------------- topological_sort -------------------------- *)
\* The orders a loop over the set S can take.
Orders(S) ==
  {s \in [1..Cardinality(S) -> S] : \A i, j \in DOMAIN s : s[i] = s[j] => i = j}

\* A seed that holds every edge.
SortSeedEveryEdge(g) ==
  [sorted_edges |-> SetToSeq(DOMAIN g.edges),
   evaluated_variables |-> Range(g.inputs) \cup
                           Range(TargetsOf(g, SetToSeq(DOMAIN g.edges), 1))]

\* evaluated_variables = set(self.inputs); sorted_edges = the edges without
\* sources, in dict order; evaluated_variables |= their targets.
SortSeed(g) ==
  LET sorted_edges == SetToSeq({e \in DOMAIN g.edges : Len(g.edges[e].sources) = 0})
  IN [sorted_edges |-> sorted_edges,
      evaluated_variables |-> Range(g.inputs) \cup Range(TargetsOf(g, sorted_edges, 1))]

\* sorted_edges.append(edge_id); new_evaluated_variables |= set(edge.targets)
Sorted(g, st, edge_id) ==
  [sorted_edges |-> Append(st.sorted_edges, edge_id),
   new_evaluated_variables |->
      st.new_evaluated_variables \cup Range(g.edges[edge_id].targets)]

\* A loop over edge_ids that appends every edge not yet sorted, ready or not.
RECURSIVE SortTargetsUnready(_, _, _, _, _)
SortTargetsUnready(g, evaluated_variables, st, edge_ids, i) ==
  IF i > Len(edge_ids) THEN st
  ELSE IF edge_ids[i] \in Range(st.sorted_edges)
  THEN SortTargetsUnready(g, evaluated_variables, st, edge_ids, i + 1)
  ELSE SortTargetsUnready(g, evaluated_variables, Sorted(g, st, edge_ids[i]), edge_ids, i + 1)

\* A loop over edge_ids that does not skip the edges already sorted.
RECURSIVE SortTargetsResorting(_, _, _, _, _)
SortTargetsResorting(g, evaluated_variables, st, edge_ids, i) ==
  IF i > Len(edge_ids) THEN st
  ELSE IF SourcesPlaced(g, edge_ids[i], evaluated_variables)
  THEN SortTargetsResorting(g, evaluated_variables, Sorted(g, st, edge_ids[i]), edge_ids, i + 1)
  ELSE SortTargetsResorting(g, evaluated_variables, st, edge_ids, i + 1)

\* for edge_id in edge_ids, taken in the order edge_ids
\* st = [sorted_edges, new_evaluated_variables]
RECURSIVE SortTargets(_, _, _, _, _)
SortTargets(g, evaluated_variables, st, edge_ids, i) ==
  IF i > Len(edge_ids) THEN st
  ELSE IF edge_ids[i] \in Range(st.sorted_edges)
  THEN SortTargets(g, evaluated_variables, st, edge_ids, i + 1)
  ELSE IF SourcesPlaced(g, edge_ids[i], evaluated_variables)
  THEN SortTargets(g, evaluated_variables, Sorted(g, st, edge_ids[i]), edge_ids, i + 1)
  ELSE SortTargets(g, evaluated_variables, st, edge_ids, i + 1)

\* for vertex_id in evaluated_variables, taken in the order vertex_order, the
\* targets of each vertex in the order target_order gives for it
RECURSIVE SortVertices(_, _, _, _, _, _)
SortVertices(g, evaluated_variables, st, vertex_order, target_order, i) ==
  IF i > Len(vertex_order) THEN st
  ELSE SortVertices(g, evaluated_variables,
                    SortTargets(g, evaluated_variables, st,
                                target_order[vertex_order[i]], 1),
                    vertex_order, target_order, i + 1)

\* A pass that never fails.
EndSortPassWithoutCheck(evaluated_variables, st) ==
  [sorted_edges |-> st.sorted_edges,
   evaluated_variables |-> evaluated_variables \cup st.new_evaluated_variables,
   err |-> "none"]

\* The end of a pass: no new variable is the failure, else the new ones are
\* evaluated.  [sorted_edges, evaluated_variables, err]
EndSortPass(evaluated_variables, st) ==
  IF Cardinality(st.new_evaluated_variables) = 0
  THEN [sorted_edges |-> st.sorted_edges, evaluated_variables |-> evaluated_variables,
        err |-> "SortFailureError"]
  ELSE [sorted_edges |-> st.sorted_edges,
        evaluated_variables |-> evaluated_variables \cup st.new_evaluated_variables,
        err |-> "none"]

\* One pass of the while loop of topological_sort.
SortPass(g, l, vertex_order, target_order) ==
  EndSortPass(l.evaluated_variables,
              SortVertices(g, l.evaluated_variables,
                           [sorted_edges |-> l.sorted_edges,
                            new_evaluated_variables |-> {}],
                           vertex_order, target_order, 1))

\* The orders the loops of one pass can take over the evaluated variables
\* and over the targets of each.
VertexOrders(l) == Orders(l.evaluated_variables)
TargetOrders(g, l) ==
  {f \in [l.evaluated_variables -> UNION {Orders(T) : T \in SUBSET DOMAIN g.edges}] :
     \A v \in l.evaluated_variables : f[v] \in Orders(g.vertices[v].targets)}

(* ------------------------------- compute ------------------------------- *)
\* self.vertices[target].set_value(value), r being what set_value gives
Written(st, target, r) ==
  [g |-> [st.g EXCEPT !.vertices[target] = r.vertex], err |-> r.err]

\* for target, value in zip(edge.targets, target_values).  st = [g, err]
RECURSIVE WriteTargets(_, _, _, _)
WriteTargets(st, targets, target_values, i) ==
  IF i > Len(targets) \/ i > Len(target_values) \/ st.err # "none" THEN st
  ELSE WriteTargets(Written(st, targets[i],
                            set_value(st.g.vertices[targets[i]], target_values[i])),
                    targets, target_values, i + 1)

\* target_values = edge.operation(source_values), r being what it gives
Operated(g, targets, r) ==
  IF r.err # "none" THEN [g |-> g, err |-> r.err]
  ELSE WriteTargets([g |-> g, err |-> "none"], targets, r.values, 1)

\* A loop body that hands the operation the source values last port first.
ComputeEdgeLastPortFirst(g, edge_id) ==
  Operated(g, g.edges[edge_id].targets,
           Apply(g.edges[edge_id].operation,
                 [i \in DOMAIN g.edges[edge_id].sources |->
                    g.vertices[g.edges[edge_id].sources[
                       Len(g.edges[edge_id].sources) + 1 - i]].value]))

\* The body of the loop of compute for one edge: [g, err]
ComputeEdge(g, edge_id) ==
  Operated(g, g.edges[edge_id].targets,
           Apply(g.edges[edge_id].operation,
                 [i \in DOMAIN g.edges[edge_id].sources |->
                    g.vertices[g.edges[edge_id].sources[i]].value]))

(* ------------------- the networks the calls can build ------------------ *)
\* The value the caller gives vertex v when it supplies one: an array of the
\* shape of the vertex.
Primal(g, v) == Tensor(g.vertices[v].vtype, <<2, 5, 3>>[v + 1])

\* An edge as the caller constructs it: an Operation with the caller's sum,
\* with or without a reverse derivative, an Operation with lambda x: x and
\* no reverse derivative, or Operation.create_identity.
OperationOf(e, obj) ==
  CASE e.kind = "sum" -> Operation("sum", e.sources, e.targets, "sum_rd", <<"sum">>, FALSE, obj)
    [] e.kind = "sum_no_rd" ->
         Operation("sum", e.sources, e.targets, "None", <<"sum">>, FALSE, obj)
    [] e.kind = "pass" ->
         Operation("id", e.sources, e.targets, "None", <<"pass">>, FALSE, obj)
    [] e.kind = "id" -> Operation_create_identity(e.sources, e.targets, obj)

\* add_vertex(Variable(vtypes[i], name=str(i - 1))) for each i, in order.
RECURSIVE BuildVariables(_, _, _)
BuildVariables(g, vtypes, i) ==
  IF i > Len(vtypes) THEN g
  ELSE BuildVariables(add_vertex(g, Variable(vtypes[i], None, <<ToString(i - 1)>>,
                                              <<g.gid, NextId(g.vertices)>>)).g,
                      vtypes, i + 1)

\* add_edge(edge) for each edge of edges, in order, r being what the last
\* add_edge gave.
RECURSIVE BuildOperations(_, _, _)
BuildOperations(r, edges, i) ==
  IF i > Len(edges) \/ r.err # "none" THEN [g |-> r.g, err |-> r.err]
  ELSE BuildOperations(add_edge(r.g, OperationOf(edges[i], <<r.g.gid, NextId(r.g.edges)>>)),
                       edges, i + 1)

\* vertices[v].set_value(Primal(g, v)) for the vertices of the set.
SupplyValues(g, S) ==
  [g EXCEPT !.vertices = [v \in DOMAIN @ |->
     IF v \in S THEN set_value(@[v], Primal(g, v)).vertex ELSE @[v]]]

\* The network the caller gets from add_vertex and add_edge calls on an
\* empty network, the assignment of its inputs and outputs and the values it
\* sets.
Boundary(r, inputs, outputs, valued) ==
  [g |-> SupplyValues([r.g EXCEPT !.inputs = inputs, !.outputs = outputs], valued),
   err |-> r.err]

BuildNetwork(gid, vtypes, edges, inputs, outputs, valued) ==
  Boundary(BuildOperations([g |-> BuildVariables(EmptyGraph(gid), vtypes, 1), err |-> "none"],
                           edges, 1),
           inputs, outputs, valued)

\* Lists of at most k edges over the vertices V, of the kinds given, with at
\* most MaxNetSources sources and MaxNetTargets targets each and at most
\* budget ports in all.
RECURSIVE NetEdgeLists(_, _, _, _)
NetEdgeLists(V, k, budget, kinds) ==
  IF k = 0 THEN {<<>>}
  ELSE {<<>>} \cup
       UNION {{<<[sources |-> p[1], targets |-> p[2], kind |-> p[3]]>> \o rest :
                 rest \in NetEdgeLists(V, k - 1, budget - Len(p[1]) - Len(p[2]), kinds)} :
              p \in {q \in BSeq(V, MaxNetSources) \X BSeq(V, MaxNetTargets) \X kinds :
                       /\ Len(q[1]) + Len(q[2]) <= budget
                       /\ q[3] = "id" => Len(q[1]) = Len(q[2])}}

\* The ascending lists of at most k of the vertices V.
AscendingLists(V, k) == {SetToSeq(S) : S \in {T \in SUBSET V : Cardinality(T) <= k}}

\* The networks of the evaluator: the inputs hold their values or none does.
InitEval ==
  /\ \E n \in 0..MaxNetVertices :
     \E edges \in NetEdgeLists(0..(n - 1), MaxNetEdges, MaxNetPorts, {"sum", "pass"}) :
     \E inputs \in AscendingLists(0..(n - 1), MaxNetInputs) :
     \E outputs \in {<<>>} \cup {<<v>> : v \in {n - 1} \cap (0..(n - 1))} :
     \E supplied \in BOOLEAN :
     \E b \in {BuildNetwork(0, [i \in 1..n |-> 0], edges, inputs, outputs,
                            IF supplied THEN Range(inputs) ELSE {})} :
        /\ b.err = "none"
        /\ A = b.g
  /\ B = EmptyGraph(1)
  /\ C = EmptyGraph(2)
  /\ pc = "net"
  /\ err = "none"
  /\ loc = NoLoc
  /\ nextGid = 3

(* ------------------ topological_sort and compute, by steps ------------- *)
\* The network a running topological_sort or compute works on.
Net == IF loc.on = "C" THEN C ELSE A

\* The call op of the network named on, up to the while loop of
\* topological_sort.  loc.self records the network as it was when the call
\* was made, loc.passes counts the passes of the while loop.
SortCall(op, on, g) ==
  /\ loc' = [op |-> op, in_place |-> TRUE, on |-> on,
             sorted_edges |-> SortSeed(g).sorted_edges,
             evaluated_variables |-> SortSeed(g).evaluated_variables,
             passes |-> 0, i |-> 1, self |-> g]
  /\ pc' = "sorting"
  /\ err' = "none"
  /\ UNCHANGED <<A, B, C, nextGid>>

\* self.topological_sort()
TopologicalSort == pc = "net" /\ SortCall("topological_sort", "A", A)

\* self.compute(), up to the while loop of the topological_sort it calls
Compute == pc = "net" /\ SortCall("compute", "A", A)

\* One pass of the while loop of topological_sort.
TopologicalSortPass ==
  /\ pc = "sorting"
  /\ Cardinality(loc.evaluated_variables) < Cardinality(DOMAIN Net.vertices)
  /\ \E vertex_order \in VertexOrders(loc), target_order \in TargetOrders(Net, loc) :
     \E r \in {SortPass(Net, loc, vertex_order, target_order)} :
        /\ loc' = [loc EXCEPT !.sorted_edges = r.sorted_edges,
                              !.evaluated_variables = r.evaluated_variables,
                              !.passes = @ + 1]
        /\ err' = r.err
        /\ pc' = IF r.err = "none" THEN "sorting" ELSE "raised"
  /\ UNCHANGED <<A, B, C, nextGid>>

\* The while loop is left: topological_sort returns sorted_edges, to the
\* caller or to compute.
TopologicalSortReturn ==
  /\ pc = "sorting"
  /\ Cardinality(loc.evaluated_variables) >= Cardinality(DOMAIN Net.vertices)
  /\ pc' = IF loc.op = "compute" THEN "computing" ELSE "sorted"
  /\ UNCHANGED <<A, B, C, err, loc, nextGid>>

\* One pass of the loop of compute: the edge edges_to_compute[i].
ComputeStep ==
  /\ pc = "computing"
  /\ loc.i <= Len(loc.sorted_edges)
  /\ \E r \in {ComputeEdge(Net, loc.sorted_edges[loc.i])} :
        /\ A' = IF loc.on = "A" THEN r.g ELSE A
        /\ C' = IF loc.on = "C" THEN r.g ELSE C
        /\ err' = r.err
        /\ pc' = IF r.err = "none" THEN "computing" ELSE "raised"
  /\ loc' = [loc EXCEPT !.i = @ + 1]
  /\ UNCHANGED <<B, nextGid>>

\* The loop of compute is left.
ComputeReturn ==
  /\ pc = "computing"
  /\ loc.i > Len(loc.sorted_edges)
  /\ pc' = "computed"
  /\ UNCHANGED <<A, B, C, err, loc, nextGid>>

NextEval ==
  \/ TopologicalSort \/ Compute \/ TopologicalSortPass \/ TopologicalSortReturn
  \/ ComputeStep \/ ComputeReturn

SpecEval == InitEval /\ [][NextEval]_vars

(* ----------------------- the order of evaluation ----------------------- *)
\* No edge id is twice in the order, and every source vertex of the edge at
\* a position is an input of g or a target of an edge at an earlier position.
ValidOrder(g, order) ==
  /\ \A i, j \in DOMAIN order : order[i] = order[j] => i = j
  /\ \A i \in DOMAIN order :
        \A v \in Range(g.edges[order[i]].sources) :
           \/ v \in Range(g.inputs)
           \/ \E j \in 1..(i - 1) : v \in Range(g.edges[order[j]].targets)

\* topological_sort has returned, to the caller or to compute.
SortReturned == pc \in {"sorted", "computing", "computed"}

\* C14: whenever topological_sort returns, to its caller or to compute, the
\* list it returns has no edge id twice and every source vertex of the edge
\* at position i is a designated input or a target of an edge at a position
\* before i.
C14_ValidOrder == SortReturned => ValidOrder(loc.self, loc.sorted_edges)

\* C14 witness: topological_sort returned, after two passes, two edges the
\* second of which has a source that is no input.
C14_Witness ==
  /\ pc = "sorted"
  /\ loc.passes = 2
  /\ Len(loc.sorted_edges) = 2
  /\ ~(Range(A.edges[loc.sorted_edges[2]].sources) \subseteq Range(A.inputs))

\* C15: a pass of the while loop of topological_sort that appends no edge
\* while some edge of the network is not in the sorted list ends in
\* SortFailureError; topological_sort does not return from it.
C15_SortFailure ==
  [][(pc = "sorting" /\ loc'.passes = loc.passes + 1
      /\ loc'.sorted_edges = loc.sorted_edges
      /\ Range(loc.sorted_edges) # DOMAIN Net.edges) =>
        pc' = "raised" /\ err' = "SortFailureError"]_vars

\* C15 witness: topological_sort failed in its second pass with one edge
\* sorted and another left.
C15_Witness ==
  /\ pc = "raised"
  /\ err = "SortFailureError"
  /\ loc.op = "topological_sort"
  /\ loc.passes = 2
  /\ Len(loc.sorted_edges) = 1
  /\ Cardinality(DOMAIN A.edges) = 2

(* ------------------- compute on scalars and vectors -------------------- *)
\* The networks whose vertices are scalars and vectors in turn, every input
\* holding its value.
InitShape ==
  /\ \E n \in 0..MaxNetVertices :
     \E edges \in NetEdgeLists(0..(n - 1), MaxNetEdges, MaxNetPorts, {"sum", "pass"}) :
     \E inputs \in AscendingLists(0..(n - 1), MaxNetInputs) :
     \E b \in {BuildNetwork(0, [i \in 1..n |-> (i - 1) % 2], edges, inputs, <<>>,
                            Range(inputs))} :
        /\ b.err = "none"
        /\ A = b.g
  /\ B = EmptyGraph(1)
  /\ C = EmptyGraph(2)
  /\ pc = "net"
  /\ err = "none"
  /\ loc = NoLoc
  /\ nextGid = 3

NextShape ==
  \/ Compute \/ TopologicalSortPass \/ TopologicalSortReturn
  \/ ComputeStep \/ ComputeReturn

SpecShape == InitShape /\ [][NextShape]_vars

(* -------------------------- reverse_derivative ------------------------- *)
MaxDerivVertices == 3
MaxDerivEdges == 2
MaxDerivPorts == 3

\* vmap[vertex_id] = new_vertex_id, r being what add_vertex gave
CotangentAdded(st, vertex_id, r) == [g |-> r.g, vmap |-> Put(st.vmap, vertex_id, r.id)]

\* for vertex_id, vertex in self.vertices.items(): a Variable of the vtype
\* of vertex, named 'd' + its name, without a value.  st = [g, vmap]
RECURSIVE AddCotangents(_, _, _, _)
AddCotangents(self, st, vertex_ids, i) ==
  IF i > Len(vertex_ids) THEN st
  ELSE AddCotangents(self,
         CotangentAdded(st, vertex_ids[i],
            add_vertex(st.g, Variable(self.vertices[vertex_ids[i]].vtype, None,
                                      <<"d">> \o self.vertices[vertex_ids[i]].name,
                                      <<st.g.gid, NextId(st.g.vertices)>>))),
         vertex_ids, i + 1)

\* new_inputs gets the id add_vertex gave, r being what add_vertex gave
MirrorAdded(st, r) == [g |-> r.g, new_inputs |-> Append(st.new_inputs, r.id)]

\* Variable(self.vertices[vertex_id].vtype, name=self.vertices[vertex_id].name)
MirrorVariable(vertex, obj) == Variable(vertex.vtype, None, vertex.name, obj)

\* new_vertices and new_inputs of an edge: one Variable for each source port,
\* added in port order.  st = [g, new_inputs]
RECURSIVE AddMirrors(_, _, _, _)
AddMirrors(self, st, sources, i) ==
  IF i > Len(sources) THEN st
  ELSE AddMirrors(self,
         MirrorAdded(st, add_vertex(st.g, MirrorVariable(self.vertices[sources[i]],
                                                         <<st.g.gid, NextId(st.g.vertices)>>))),
         sources, i + 1)

\* An edge of the derivative with its sources and its targets exchanged.
DerivativeEdgeExchanged(edge, vmap, new_inputs, obj) ==
  Operation(edge.reverse_derivative,
            [k \in DOMAIN edge.sources |-> vmap[edge.sources[k]]],
            new_inputs \o [k \in DOMAIN edge.targets |-> vmap[edge.targets[k]]],
            "None", <<"R[">> \o edge.label \o <<"]">>, FALSE, obj)

\* Operation(edge.reverse_derivative, new_inputs + [vmap[t] for t in
\* edge.targets], [vmap[s] for s in edge.sources], label=f'R[{edge.label}]')
DerivativeEdge(edge, vmap, new_inputs, obj) ==
  Operation(edge.reverse_derivative,
            new_inputs \o [k \in DOMAIN edge.targets |-> vmap[edge.targets[k]]],
            [k \in DOMAIN edge.sources |-> vmap[edge.sources[k]]],
            "None", <<"R[">> \o edge.label \o <<"]">>, FALSE, obj)

\* reverse_derivative.add_edge(new_edge), r being what add_edge gave
DerivativeEdgeAdded(st, r) == [g |-> r.g, vmap |-> st.vmap, err |-> r.err]

\* The body of the second loop past the check, m = [g, new_inputs] being
\* what the creation of the mirror vertices gave:
\* reverse_derivative.inputs += new_inputs, then the new edge is added.
EdgeDerived(st, edge, m) ==
  DerivativeEdgeAdded(st,
     add_edge([m.g EXCEPT !.inputs = @ \o m.new_inputs],
              DerivativeEdge(edge, st.vmap, m.new_inputs, <<m.g.gid, NextId(m.g.edges)>>)))

\* A second loop that derives an edge without a rule like any other.
RECURSIVE DeriveEdgesUnchecked(_, _, _, _)
DeriveEdgesUnchecked(self, st, edge_ids, i) ==
  IF i > Len(edge_ids) \/ st.err # "none" THEN st
  ELSE DeriveEdgesUnchecked(self,
         EdgeDerived(st, self.edges[edge_ids[i]],
                     AddMirrors(self, [g |-> st.g, new_inputs |-> <<>>],
                                self.edges[edge_ids[i]].sources, 1)),
         edge_ids, i + 1)

\* for edge in self.edges.values(): an edge without a reverse derivative
\* raises, any other gets its mirror vertices and its edge.
\* st = [g, vmap, err]
RECURSIVE DeriveEdges(_, _, _, _)
DeriveEdges(self, st, edge_ids, i) ==
  IF i > Len(edge_ids) \/ st.err # "none" THEN st
  ELSE IF self.edges[edge_ids[i]].reverse_derivative = "None"
  THEN [st EXCEPT !.err = "MissingDerivativeError"]
  ELSE DeriveEdges(self,
         EdgeDerived(st, self.edges[edge_ids[i]],
                     AddMirrors(self, [g |-> st.g, new_inputs |-> <<>>],
                                self.edges[edge_ids[i]].sources, 1)),
         edge_ids, i + 1)

\* reverse_derivative.inputs += [vmap[o] for o in self.outputs];
\* reverse_derivative.outputs = [vmap[i] for i in self.inputs]
DerivativeBoundary(self, st) ==
  IF st.err # "none" THEN [g |-> st.g, err |-> st.err]
  ELSE [g |-> [st.g EXCEPT
                 !.inputs = @ \o [k \in DOMAIN self.outputs |-> st.vmap[self.outputs[k]]],
                 !.outputs = [k \in DOMAIN self.inputs |-> st.vmap[self.inputs[k]]]],
        err |-> "none"]

\* The state of the second loop at its start, c = [g, vmap] being what the
\* first loop gave.
Cotangents(c) == [g |-> c.g, vmap |-> c.vmap, err |-> "none"]

\* self.reverse_derivative(), the new network being the object gid:
\* [g, err], g being returned when err is "none".
reverse_derivative(self, gid) ==
  DerivativeBoundary(self,
     DeriveEdges(self,
        Cotangents(AddCotangents(self, [g |-> EmptyGraph(gid), vmap |-> <<>>],
                                 SetToSeq(DOMAIN self.vertices), 1)),
        SetToSeq(DOMAIN self.edges), 1))

\* The networks of the differentiation: the vertices are scalars or scalars
\* and vectors in turn, and every input holds its value.
InitDeriv ==
  /\ \E n \in 0..MaxDerivVertices :
     \E edges \in NetEdgeLists(0..(n - 1), MaxDerivEdges, MaxDerivPorts,
                               {"sum", "sum_no_rd", "id"}) :
     \E inputs \in AscendingLists(0..(n - 1), MaxNetInputs) :
     \E outputs \in {<<>>} \cup {<<v>> : v \in {n - 1} \cap (0..(n - 1))} :
     \E vtypes \in {[i \in 1..n |-> 0], [i \in 1..n |-> (i - 1) % 2]} :
     \E b \in {BuildNetwork(0, vtypes, edges, inputs, outputs, Range(inputs))} :
        /\ b.err = "none"
        /\ A = b.g
  /\ B = EmptyGraph(1)
  /\ C = EmptyGraph(2)
  /\ pc = "net"
  /\ err = "none"
  /\ loc = NoLoc
  /\ nextGid = 3

\* C = A.reverse_derivative(): C is assigned when the call returns.
ReverseDerivative ==
  /\ pc = "net"
  /\ \E r \in {reverse_derivative(A, nextGid)} :
        /\ C' = IF r.err = "none" THEN r.g ELSE C
        /\ err' = r.err
        /\ pc' = IF r.err = "none" THEN "derived" ELSE "raised"
  /\ loc' = [op |-> "reverse_derivative", in_place |-> FALSE, on |-> "A", self |-> A]
  /\ nextGid' = nextGid + 1
  /\ UNCHANGED <<A, B>>

\* The inputs of C that are cotangents of the outputs of A: the last
\* len(A.outputs) of them.
CotangentInputs == {C.inputs[k] : k \in (Len(C.inputs) - Len(A.outputs) + 1)..Len(C.inputs)}

\* The caller sets the cotangent inputs of C to 1: set_value of an array of
\* ones of the shape of the vertex.
SupplyCotangents ==
  /\ pc = "derived"
  /\ C' = [C EXCEPT !.vertices = [v \in DOMAIN @ |->
             IF v \in CotangentInputs THEN set_value(@[v], Tensor(@[v].vtype, 1)).vertex
             ELSE @[v]]]
  /\ pc' = "seeded"
  /\ UNCHANGED <<A, B, err, loc, nextGid>>

\* C.compute(), up to the while loop of the topological_sort it calls
ComputeDerivative == pc = "seeded" /\ SortCall("compute", "C", C)

NextDeriv ==
  \/ ReverseDerivative \/ SupplyCotangents \/ ComputeDerivative
  \/ TopologicalSortPass \/ TopologicalSortReturn \/ ComputeStep \/ ComputeReturn

SpecDeriv == InitDeriv /\ [][NextDeriv]_vars

(* ------------------------ properties of compute ------------------------ *)
\* The values of the vertices ids of g, in the order of ids.
ValuesOf(g, ids) == [k \in DOMAIN ids |-> g.vertices[ids[k]].value]

\* The network of the scenario: vertices 0, 1, 2, one edge [0, 1] -> [2]
\* whose operation is sum, inputs [0, 1], outputs [2], vertex 0 = 2 and
\* vertex 1 = 5.
IsSumScenario(g) ==
  /\ DOMAIN g.vertices = 0..2
  /\ DOMAIN g.edges = {0}
  /\ g.edges[0].sources = <<0, 1>>
  /\ g.edges[0].targets = <<2>>
  /\ g.edges[0].operation = "sum"
  /\ g.inputs = <<0, 1>>
  /\ g.outputs = <<2>>
  /\ ValuesOf(g, <<0, 1, 2>>) = <<Tensor(0, 2), Tensor(0, 5), None>>

\* What one pass of the loop of compute over the edge does to the values of
\* g, g2 being the network after it: the operation gets the values of the
\* sources in port order, and the target at each port gets the result at
\* that port, the last port of a vertex counting.
EdgeComputed(g, g2, edge) ==
  LET target_values == Apply(edge.operation, ValuesOf(g, edge.sources)).values
      ports(v) == {k \in DOMAIN edge.targets \cap DOMAIN target_values : edge.targets[k] = v}
  IN \A v \in DOMAIN g.vertices :
        g2.vertices[v].value = IF ports(v) = {} THEN g.vertices[v].value
                               ELSE target_values[Max(ports(v), 0)]

\* C16: compute executes the edges of the list topological_sort returned one
\* after the other in the order of the list; a pass that does not raise
\* has given the operation of its edge the values of the source vertices in
\* port order and written the i-th result to the i-th target; and compute on
\* the network of the scenario does not raise and leaves vertex 2 = 7 and
\* vertices 0 and 1 at 2 and 5.
C16_Compute ==
  [][/\ pc = "computing" =>
           /\ loc'.sorted_edges = loc.sorted_edges
           /\ loc'.i \in {loc.i, loc.i + 1}
           /\ (loc'.i = loc.i) <=> (pc' = "computed")
           /\ pc' = "computed" => loc.i = Len(loc.sorted_edges) + 1
           /\ (loc'.i = loc.i + 1 /\ err' = "none") =>
                 EdgeComputed(Net, Net', Net.edges[loc.sorted_edges[loc.i]])
     /\ (loc'.op = "compute" /\ IsSumScenario(loc'.self)) =>
           /\ pc' # "raised"
           /\ pc' = "computed" =>
                 ValuesOf(Net', <<0, 1, 2>>) = <<Tensor(0, 2), Tensor(0, 5), Tensor(0, 7)>>]_vars

\* C16 witness: compute has finished on the network of the scenario.
C16_Witness ==
  /\ pc = "computed"
  /\ loc.op = "compute"
  /\ IsSumScenario(loc.self)
  /\ A.vertices[2].value = Tensor(0, 7)

\* The edge orders topological_sort can return on g from the loop state l,
\* over every order its loops can take; none when a pass raises.
RECURSIVE SortResults(_, _)
SortResults(g, l) ==
  IF Cardinality(l.evaluated_variables) >= Cardinality(DOMAIN g.vertices)
  THEN {l.sorted_edges}
  ELSE UNION {IF r.err # "none" THEN {}
              ELSE SortResults(g, [sorted_edges |-> r.sorted_edges,
                                   evaluated_variables |-> r.evaluated_variables]) :
              r \in {SortPass(g, l, vertex_order, target_order) :
                       vertex_order \in VertexOrders(l),
                       target_order \in TargetOrders(g, l)}}

\* The loop of compute over the edges of order from the i-th on: [g, err]
RECURSIVE ComputeAlong(_, _, _)
ComputeAlong(st, order, i) ==
  IF i > Len(order) \/ st.err # "none" THEN st
  ELSE ComputeAlong(ComputeEdge(st.g, order[i]), order, i + 1)

\* What compute leaves of g when topological_sort returns order: the values
\* of the vertices and the exception, if any.
Left(g, order) ==
  [values |-> [v \in DOMAIN g.vertices |->
                 ComputeAlong([g |-> g, err |-> "none"], order, 1).g.vertices[v].value],
   err |-> ComputeAlong([g |-> g, err |-> "none"], order, 1).err]

InputValuesSet(g) == \A v \in Range(g.inputs) : g.vertices[v].value # None

\* No designated input is a target of an edge.
InputsNotProduced(g) == \A v \in Range(g.inputs) : g.vertices[v].sources = {}

\* What C17 says of a compute call on a network that Pre admits: compute
\* returns for every order topological_sort can return or for none, the
\* orders for which it returns leave the same values, and a compute that
\* has returned has left them.
OrderIndependent(Pre(_)) ==
  (loc.op = "compute" /\ Pre(loc.self)) =>
     /\ \A o1, o2 \in SortResults(loc.self, SortSeed(loc.self)) :
           /\ Left(loc.self, o1).err = "none" <=> Left(loc.self, o2).err = "none"
           /\ Left(loc.self, o1).err = "none" =>
                 Left(loc.self, o1).values = Left(loc.self, o2).values
     /\ pc = "computed" =>
           \A o \in SortResults(loc.self, SortSeed(loc.self)) :
              Left(loc.self, o).values = [v \in DOMAIN Net.vertices |-> Net.vertices[v].value]

\* C17 as stated: on an acyclic, source-monogamous network whose input
\* values are all set, compute leaves the same vertex values for every edge
\* order topological_sort can return.
C17_AsStated ==
  LET Pre(g) == Acyclic(g) /\ SourceMonogamous(g) /\ InputValuesSet(g)
  IN OrderIndependent(Pre)

\* C17: on an acyclic, source-monogamous network whose input values are all
\* set and none of whose inputs is a target of an edge, a compute that
\* returns leaves the same vertex values for every edge order
\* topological_sort can return, and compute raises for one of the orders
\* only if it raises for all.
C17_OrderIndependent ==
  LET Pre(g) == Acyclic(g) /\ SourceMonogamous(g) /\ InputValuesSet(g) /\ InputsNotProduced(g)
  IN OrderIndependent(Pre)

\* C17 witness: compute has returned on such a network that
\* topological_sort can sort in two orders, each edge having written a value.
C17_Witness ==
  /\ pc = "computed"
  /\ loc.op = "compute"
  /\ Acyclic(loc.self) /\ SourceMonogamous(loc.self)
  /\ InputValuesSet(loc.self) /\ InputsNotProduced(loc.self)
  /\ Cardinality(SortResults(loc.self, SortSeed(loc.self))) = 2
  /\ \A e \in DOMAIN A.edges : \E v \in Range(A.edges[e].targets) : A.vertices[v].value # None

(* -------------------- properties of reverse_derivative ----------------- *)
\* C holds the network a reverse_derivative call on A returned.
DerivativeReturned ==
  \/ pc \in {"derived", "seeded"}
  \/ pc \in {"sorting", "computing", "computed", "raised"} /\ loc.on = "C"

\* ids[1], ..., ids[n] through the map f
Through(f, ids) == [k \in DOMAIN ids |-> f[ids[k]]]

\* The source ports <<edge, port>> of g, and the id of the vertex of the
\* derivative rd at each: the source of the edge of rd at the same port.
SourcePorts(g) == {<<e, k>> : e \in DOMAIN g.edges, k \in 1..MaxNetSources} \cap
                  UNION {{<<e, k>> : k \in DOMAIN g.edges[e].sources} : e \in DOMAIN g.edges}
MirrorAt(rd, port) == rd.edges[port[1]].sources[port[2]]

\* The mirror vertices of the edges of g from the i-th edge of edge_ids on,
\* edge after edge and in port order within each.
RECURSIVE MirrorsInOrder(_, _, _, _)
MirrorsInOrder(g, rd, edge_ids, i) ==
  IF i > Len(edge_ids) THEN <<>>
  ELSE SubSeq(rd.edges[edge_ids[i]].sources, 1, Len(g.edges[edge_ids[i]].sources))
       \o MirrorsInOrder(g, rd, edge_ids, i + 1)

\* rd has the structure C18 gives the reverse derivative of g, cotangent
\* being the map from the vertices of g to their cotangent vertices in rd.
DerivativeOf(g, rd, cotangent) ==
  /\ rd.gid # g.gid
  /\ DOMAIN rd.edges = DOMAIN g.edges
  /\ \A e \in DOMAIN g.edges :
        /\ Len(rd.edges[e].sources) = Len(g.edges[e].sources) + Len(g.edges[e].targets)
        /\ SubSeq(rd.edges[e].sources, Len(g.edges[e].sources) + 1, Len(rd.edges[e].sources))
              = Through(cotangent, g.edges[e].targets)
        /\ rd.edges[e].targets = Through(cotangent, g.edges[e].sources)
        /\ rd.edges[e].operation = g.edges[e].reverse_derivative
  /\ \A v, w \in DOMAIN g.vertices : cotangent[v] = cotangent[w] => v = w
  /\ \A v \in DOMAIN g.vertices :
        /\ cotangent[v] \in DOMAIN rd.vertices
        /\ rd.vertices[cotangent[v]].vtype = g.vertices[v].vtype
  /\ \A p, q \in SourcePorts(g) : MirrorAt(rd, p) = MirrorAt(rd, q) => p = q
  /\ \A p \in SourcePorts(g) :
        /\ MirrorAt(rd, p) \in DOMAIN rd.vertices \ Range(cotangent)
        /\ rd.vertices[MirrorAt(rd, p)].vtype =
              g.vertices[g.edges[p[1]].sources[p[2]]].vtype
  /\ DOMAIN rd.vertices = Range(cotangent) \cup {MirrorAt(rd, p) : p \in SourcePorts(g)}
  /\ rd.inputs = MirrorsInOrder(g, rd, SetToSeq(DOMAIN g.edges), 1)
                    \o Through(cotangent, g.outputs)
  /\ rd.outputs = Through(cotangent, g.inputs)

\* C18: the network reverse_derivative returns is a new one; it has one
\* cotangent vertex of the same vtype for each vertex of the original (the
\* vertex of the same id), one fresh mirror vertex for each source port of
\* each edge, and for each edge e: A -> B one edge (of the same id) with
\* sources [mirrors of A] ++ [cotangents of B], targets [cotangents of A]
\* and the reverse-derivative rule of e as operation; its inputs are the
\* mirrors followed by the cotangents of the outputs, its outputs the
\* cotangents of the inputs.
C18_DerivativeStructure ==
  DerivativeReturned =>
     /\ DerivativeOf(A, C, [v \in DOMAIN A.vertices |-> v])
     /\ NoSharedRecords(C, A)

\* C18 witness: a derivative has been returned for a network with three
\* vertices, one of them a vector, an output and two edges with a source
\* each, one of them with a target.
C18_Witness ==
  /\ pc = "derived"
  /\ Cardinality(DOMAIN A.edges) = 2
  /\ \A e \in DOMAIN A.edges : Len(A.edges[e].sources) = 1
  /\ \E e \in DOMAIN A.edges : Len(A.edges[e].targets) = 1
  /\ \E v \in DOMAIN A.vertices : A.vertices[v].vtype = 1
  /\ A.outputs # <<>>
  /\ Cardinality(DOMAIN C.vertices) = 5
  /\ Len(C.inputs) = 3

\* C19 as stated: when reverse_derivative returns, the mirror vertex of
\* every source port of every edge holds the value the source vertex it
\* mirrors holds in the original network.
C19_AsStated ==
  pc = "derived" =>
     \A p \in SourcePorts(A) :
        C.vertices[MirrorAt(C, p)].value = A.vertices[A.edges[p[1]].sources[p[2]]].value

\* g is a network of a single edge from one vertex to one vertex of the same
\* vtype, built by create_identity or with the rule of sum, which for one
\* source returns the cotangent of the target.  The source is the input and
\* the target the output.
PassThroughNetwork(g) ==
  /\ DOMAIN g.edges = {0}
  /\ Len(g.edges[0].sources) = 1
  /\ Len(g.edges[0].targets) = 1
  /\ DOMAIN g.vertices = {g.edges[0].sources[1], g.edges[0].targets[1]}
  /\ g.vertices[g.edges[0].sources[1]].vtype = g.vertices[g.edges[0].targets[1]].vtype
  /\ g.edges[0].identity \/ g.edges[0].reverse_derivative = "sum_rd"
  /\ g.inputs = g.edges[0].sources
  /\ g.outputs = g.edges[0].targets

\* C20: for a network of a single edge A -> B whose rule passes the
\* cotangent of B through, compute on the network reverse_derivative
\* returned, with the cotangent input of B set to 1, does not raise and
\* leaves the cotangent output of A equal to 1.
C20_PassThrough ==
  (loc.op = "compute" /\ loc.on = "C" /\ PassThroughNetwork(A)) =>
     /\ pc # "raised"
     /\ pc = "computed" =>
           /\ Len(C.outputs) = 1
           /\ C.vertices[C.outputs[1]].value = Tensor(C.vertices[C.outputs[1]].vtype, 1)

\* C20 witness: compute has returned on the derivative of the network of one
\* create_identity edge from vertex 0 to vertex 1, and has run its edge.
C20_Witness ==
  /\ pc = "computed"
  /\ loc.op = "compute" /\ loc.on = "C"
  /\ PassThroughNetwork(A)
  /\ A.edges[0].identity
  /\ A.edges[0].sources = <<0>> /\ A.edges[0].targets = <<1>>
  /\ loc.sorted_edges = <<0>>
  /\ C.vertices[0].value = Tensor(0, 1)

\* C21: a reverse_derivative call on a network with an edge that has no
\* reverse-derivative rule raises MissingDerivativeError, and the call,
\* whether it returns or raises, and everything done afterwards with the
\* network it returned leave the vertices, edges, values, inputs and outputs
\* of the original network as they were.
C21_MissingDerivative ==
  [][/\ A' = A
     /\ (pc = "net" /\ loc'.op = "reverse_derivative") =>
           /\ loc'.self = A
           /\ (\E e \in DOMAIN A.edges : A.edges[e].reverse_derivative = "None") =>
                 (pc' = "raised" /\ err' = "MissingDerivativeError")
           /\ (\A e \in DOMAIN A.edges : A.edges[e].reverse_derivative # "None") =>
                 (pc' = "derived" /\ err' = "none")]_vars

\* C21 witness: reverse_derivative has raised on a network whose first edge
\* has a rule and whose second edge has none, an input holding a value.
C21_Witness ==
  /\ pc = "raised"
  /\ err = "MissingDerivativeError"
  /\ loc.op = "reverse_derivative"
  /\ DOMAIN A.edges = {0, 1}
  /\ A.edges[0].reverse_derivative # "None"
  /\ A.edges[1].reverse_derivative = "None"
  /\ \E v \in Range(A.inputs) : A.vertices[v].value # None

(* ---------------------- failures of compute ---------------------------- *)
\* The target ports of the edge at which the value the operation gave has a
\* shape that is not the vtype of the target vertex.
MismatchedPorts(g, edge, target_values) ==
  {k \in DOMAIN edge.targets \cap DOMAIN target_values :
     /\ target_values[k] # None
     /\ target_values[k].shape # g.vertices[edge.targets[k]].vtype}

\* g2 is g with the values written to the targets at the ports up to n: a
\* target has the value at its last such port, every other vertex the value
\* it had.
PortsWritten(g, g2, edge, target_values, n) ==
  LET ports(v) == {k \in DOMAIN edge.targets \cap DOMAIN target_values \cap (1..n) :
                     edge.targets[k] = v}
  IN \A v \in DOMAIN g.vertices :
        g2.vertices[v].value = IF ports(v) = {} THEN g.vertices[v].value
                               ELSE target_values[Max(ports(v), 0)]

\* What C22 says of the pass of the loop of compute over edge, the operation
\* having given target_values: the pass raises ShapeMismatchError if and
\* only if the value at some target port has another shape than the vertex,
\* and then the ports before the first such port have been written and
\* every other vertex, the failing one included, has the value it had.
FailsAtFirstMismatch(edge, target_values) ==
  /\ (MismatchedPorts(Net, edge, target_values) # {}) <=>
        (pc' = "raised" /\ err' = "ShapeMismatchError")
  /\ MismatchedPorts(Net, edge, target_values) # {} =>
        PortsWritten(Net, Net', edge, target_values,
                     Min(MismatchedPorts(Net, edge, target_values)) - 1)

\* C22: compute raises ShapeMismatchError at the first target port for which
\* the forward operation of an edge gave a value whose shape is not the
\* vtype of the target vertex; the failing vertex keeps the value it had and
\* the values written before, by earlier edges or at earlier ports, stay.
C22_ShapeMismatch ==
  [][(pc = "computing" /\ loc'.i = loc.i + 1
         /\ Apply(Net.edges[loc.sorted_edges[loc.i]].operation,
                  ValuesOf(Net, Net.edges[loc.sorted_edges[loc.i]].sources)).err = "none") =>
        FailsAtFirstMismatch(Net.edges[loc.sorted_edges[loc.i]],
           Apply(Net.edges[loc.sorted_edges[loc.i]].operation,
                 ValuesOf(Net, Net.edges[loc.sorted_edges[loc.i]].sources)).values)]_vars

\* C22 witness: compute has raised ShapeMismatchError at its second edge; the
\* first edge has written a value that is still there, the target of the
\* second holds none.
C22_Witness ==
  /\ pc = "raised"
  /\ err = "ShapeMismatchError"
  /\ loc.op = "compute"
  /\ loc.i = 3
  /\ \E v \in Range(A.edges[loc.sorted_edges[1]].targets) :
        /\ loc.self.vertices[v].value = None
        /\ A.vertices[v].value # None
  /\ \E v \in Range(A.edges[loc.sorted_edges[2]].targets) : A.vertices[v].value = None

(* ------------------------ committed edges ------------------------------ *)
\* The edges in the layers.
Committed(layers) == UNION {Range(layers[k]) : k \in DOMAIN layers}

\* What C23 says of a pass of the while loop of layer_decomp: the layers
\* committed before the pass stay as they are, the layers the pass adds hold
\* no edge committed before, and no edge committed before the pass has its
\* sources changed by the pass.
CommittedStay ==
  (pc = "layering" /\ pc' \in {"layering", "raised"}) =>
     /\ Len(loc'.edge_layers) >= Len(loc.edge_layers)
     /\ SubSeq(loc'.edge_layers, 1, Len(loc.edge_layers)) = loc.edge_layers
     /\ \A k \in DOMAIN loc'.edge_layers \ DOMAIN loc.edge_layers :
           Range(loc'.edge_layers[k]) \cap Committed(loc.edge_layers) = {}
     /\ \A e \in Committed(loc.edge_layers) :
           Decomposed'.edges[e].sources = Decomposed.edges[e].sources

\* C23 as stated: every edge of the graph layer_decomp returns, the inserted
\* identities included, is at exactly one place of the returned layers; an
\* edge committed to a layer is not placed in a later layer, and its sources
\* are not rewired by a later identity insertion.
C23_AsStated ==
  [][loc'.op = "layer_decomp" =>
        /\ CommittedStay
        /\ pc' = "returned" =>
              /\ Committed(loc'.edge_layers) = Committed(loc.edge_layers)
              /\ \A e \in DOMAIN Decomposed'.edges :
                    Cardinality(Places(loc'.edge_layers, e)) = 1]_vars

(* ------------------- termination of the layering loops ----------------- *)
\* The unplaced edges of a running frobenius_layer_decomp whose sources are
\* all ready: the edges its next pass finds ready before it inserts any
\* identity.
FrobReadyEdges ==
  {e \in loc.unplaced_edges : SourcesPlaced(Decomposed, e, loc.ready_vertices)}

\* A loop state of frobenius_layer_decomp that every pass reproduces: the
\* ready edges are identities, the target of each is not ready because
\* another producer of it is unplaced and not ready, no ready vertex is an
\* output and no ready vertex leads to an unplaced edge that is not ready.
\* A pass from such a state places the ready identities, which are not new,
\* so it does not raise; it makes no vertex ready but the ones it inserts, and
\* puts one new identity in front of each target.
FrobStuck ==
  /\ pc = "layering"
  /\ loc.op = "frobenius_layer_decomp"
  /\ FrobReadyEdges # {}
  /\ \A e \in FrobReadyEdges :
        /\ Decomposed.edges[e].identity
        /\ \A v \in Range(Decomposed.edges[e].targets) :
              /\ v \notin loc.ready_vertices
              /\ (Decomposed.vertices[v].sources \cap loc.unplaced_edges) \ FrobReadyEdges # {}
  /\ \A v \in loc.ready_vertices :
        /\ v \notin Range(Decomposed.outputs)
        /\ Decomposed.vertices[v].targets \cap loc.unplaced_edges \subseteq FrobReadyEdges

\* A pass from such a state stays in the loop and ends in such a state.
C24_StuckForever ==
  [][(FrobStuck /\ loc' # loc) => (pc' = "layering" /\ FrobStuck')]_vars

\* C24 as stated: on a graph with a directed cycle the stagnation check of
\* frobenius_layer_decomp lets a pass of the loop go on only when the pass
\* has placed an edge of the graph and not just inserted identities, so that
\* the loop ends after at most as many passes as the graph has edges.
C24_AsStated ==
  [][(/\ loc.op = "frobenius_layer_decomp"
      /\ pc = "layering"
      /\ ~Acyclic(loc.self)
      /\ Len(loc'.layers) = Len(loc.layers) + 2) =>
        Range(loc'.layers[Len(loc'.layers) - 1]) \cap DOMAIN loc.self.edges # {}]_vars

(* ----------------------- layer_decomp as a cycle check ------------------ *)
\* C25 as stated: layer_decomp on a graph with a directed cycle, wherever the
\* cycle lies, does not return a layering, and what it raises is
\* CycleDetectedError.
C25_AsStated ==
  [][(loc'.op = "layer_decomp" /\ ~Acyclic(loc'.self)) =>
        /\ pc' # "returned"
        /\ pc' = "raised" => err' = "CycleDetectedError"]_vars

(* ------------------------- the order is total -------------------------- *)
\* Every vertex of the network is a designated input or a target of an edge.
EveryVertexFed(g) ==
  \A v \in DOMAIN g.vertices : v \in Range(g.inputs) \/ g.vertices[v].sources # {}

\* The positions of the order at which the edge id stands.
PositionsOf(order, e) == {i \in DOMAIN order : order[i] = e}

\* C26 as stated: whenever topological_sort returns on an acyclic network
\* every vertex of which is a designated input or a target of an edge, every
\* edge id of the network is in the returned list exactly once.
C26_AsStated ==
  (SortReturned /\ Acyclic(loc.self) /\ EveryVertexFed(loc.self)) =>
     \A e \in DOMAIN loc.self.edges :
        Cardinality(PositionsOf(loc.sorted_edges, e)) = 1

(* ------------------------ the frontier is contiguous ------------------- *)
\* The target vertices and the source vertices of the edges of a layer.
TargetsOfLayer(g, layer) ==
  UNION {Range(g.edges[layer[i]].targets) : i \in DOMAIN layer}

SourcesOfLayer(g, layer) ==
  UNION {Range(g.edges[layer[i]].sources) : i \in DOMAIN layer}

\* Every output of the graph is an input or has a producing edge.
OutputsFed(g) ==
  \A v \in Range(g.outputs) : v \in Range(g.inputs) \/ g.vertices[v].sources # {}

\* C27 as stated, for the graphs layer_decomp is meant for (acyclic,
\* source-monogamous, every source vertex and every output fed): in the
\* layers returned every source vertex of an edge of the first layer is an
\* input of the returned graph, every source vertex of an edge of a later
\* layer is a target vertex of an edge of the layer before it, and every
\* output of the returned graph is a target vertex of an edge of the last
\* layer.
C27_AsStated ==
  (/\ pc = "returned"
   /\ loc.op = "layer_decomp"
   /\ Acyclic(loc.self) /\ SourceMonogamous(loc.self)
   /\ SourcesFed(loc.self) /\ OutputsFed(loc.self)
   /\ loc.edge_layers # <<>>) =>
     /\ SourcesOfLayer(Decomposed, loc.edge_layers[1]) \subseteq Range(Decomposed.inputs)
     /\ \A k \in 2..Len(loc.edge_layers) :
           SourcesOfLayer(Decomposed, loc.edge_layers[k]) \subseteq
              TargetsOfLayer(Decomposed, loc.edge_layers[k - 1])
     /\ Range(Decomposed.outputs) \subseteq
           TargetsOfLayer(Decomposed, loc.edge_layers[Len(loc.edge_layers)])

(* ------------------ alternating vertex and edge layers ----------------- *)
\* The vertex layers stand at the odd places of the sequence (the even
\* positions of the list, counted from 0), the edge layers between them.
VertexLayerPlaces(layers) == {q \in DOMAIN layers : q % 2 = 1}

EdgeLayerPlaces(layers) == {p \in DOMAIN layers : p % 2 = 0}

\* The vertex lies in a vertex layer at one of the places.
InVertexLayer(layers, places, v) ==
  \E q \in places \cap VertexLayerPlaces(layers) : v \in Range(layers[q])

\* The list is of odd length, its layers hold vertex ids and edge ids of g in
\* turn, every source vertex of an edge of an edge layer lies in a vertex
\* layer before it and every target vertex in a vertex layer after it.
FrobLayered(g, layers) ==
  /\ Len(layers) % 2 = 1
  /\ \A q \in VertexLayerPlaces(layers) : Range(layers[q]) \subseteq DOMAIN g.vertices
  /\ \A p \in EdgeLayerPlaces(layers) :
        /\ Range(layers[p]) \subseteq DOMAIN g.edges
        /\ \A e \in Range(layers[p]) \cap DOMAIN g.edges :
              /\ \A v \in Range(g.edges[e].sources) :
                    InVertexLayer(layers, 1..(p - 1), v)
              /\ \A v \in Range(g.edges[e].targets) :
                    InVertexLayer(layers, (p + 1)..Len(layers), v)

\* C28 as stated: the list frobenius_layer_decomp returns for an acyclic
\* graph is of odd length and alternates vertex layers and edge layers, every
\* source vertex of an edge of an edge layer lies in a vertex layer before
\* that layer and every target vertex of the edge in a vertex layer after it.
C28_AsStated ==
  (pc = "returned" /\ loc.op = "frobenius_layer_decomp" /\ Acyclic(loc.self)) =>
     FrobLayered(Decomposed, loc.layers)

(* --------------------- termination of topological_sort ------------------ *)
\* The pass of the while loop of topological_sort taken in this step has
\* either raised SortFailureError or gone on with a sorted list that is the
\* old one followed by at least one edge, none of them already in the old
\* list and none of them twice.
SortPassProgress ==
  \/ pc' = "raised" /\ err' = "SortFailureError"
  \/ /\ pc' = "sorting"
     /\ Len(loc'.sorted_edges) > Len(loc.sorted_edges)
     /\ SubSeq(loc'.sorted_edges, 1, Len(loc.sorted_edges)) = loc.sorted_edges
     /\ \A i \in (Len(loc.sorted_edges) + 1)..Len(loc'.sorted_edges) :
           /\ loc'.sorted_edges[i] \in DOMAIN loc.self.edges
           /\ loc'.sorted_edges[i] \notin Range(loc.sorted_edges)
           /\ Cardinality(PositionsOf(loc'.sorted_edges, loc'.sorted_edges[i])) = 1

\* C29 as stated: every pass of the while loop of topological_sort, on any
\* network, raises SortFailureError or appends an edge that was not in the
\* sorted list, and the loop makes at most as many passes as the network has
\* edges, the pass that raises included.
C29_AsStated ==
  [][(pc = "sorting" /\ loc'.passes = loc.passes + 1) =>
        /\ SortPassProgress
        /\ loc'.passes <= Cardinality(DOMAIN loc.self.edges)]_vars

\* C29: every pass of the while loop of topological_sort, on any network,
\* raises SortFailureError or appends an edge that was not in the sorted
\* list; the passes that append are at most as many as the network has
\* edges, and at most one more pass follows them, which raises.
C29_SortTerminates ==
  [][(pc = "sorting" /\ loc'.passes = loc.passes + 1) =>
        /\ SortPassProgress
        /\ loc.passes <= Cardinality(DOMAIN loc.self.edges)
        /\ pc' = "sorting" => loc'.passes <= Cardinality(DOMAIN loc.self.edges)]_vars

\* C29 witness: topological_sort on a network with a cycle and two edges
\* appended an edge in each of two passes and raised in the third.
C29_Witness ==
  /\ pc = "raised"
  /\ err = "SortFailureError"
  /\ loc.op = "topological_sort"
  /\ ~Acyclic(loc.self)
  /\ Cardinality(DOMAIN loc.self.edges) = 2
  /\ Len(loc.sorted_edges) = 2
  /\ loc.passes = 3

(* ----------------------- termination of layer_decomp -------------------- *)
\* The edges the graph had when the while loop of layer_decomp began, which
\* are the edges unplaced_edges began with: new_identities holds every edge
\* inserted since.
EdgesAtLoopStart == DOMAIN Decomposed.edges \ loc.new_identities

====
